---- MODULE Spec2Model ----
(***************************************************************************)
(* A model of mini-owl's orchestration core:                               *)
(*   - the lane scheduler            (src/src/agent/lanes.ts)              *)
(*   - AgentDaemon.run / cancelRun   (src/src/agent/daemon.ts)             *)
(*   - runAgent's load / loop / save (src/src/agent/daemon.ts)             *)
(*   - the session manager           (src/src/session/session-manager.ts)  *)
(*   - the tool-calling loops        (src/src/agent/daemon.ts)             *)
(*                                                                         *)
(* JavaScript runs each callback to completion, so one action is the code  *)
(* that runs between two suspension points (await).  Requests are numbered *)
(* in the order in which daemon.run() is called.                           *)
(***************************************************************************)
EXTENDS Integers, Sequences, FiniteSets, Bags, TLC

\* ---------------------------------------------------------------- bounds
MaxReq == 3
MaxClock == 1
MaxFaults == 1
MaxCallers == 3
\* The holder of a snapshot calls getActiveRuns or mutates what it got at
\* most this many times.
MaxObserverSteps == 2
\* One session has at most MaxRuns successive runs, at most MaxToolRuns of
\* them with tool calls.
MaxRuns == 26
MaxToolRuns == 1
\* The host enqueues at most MaxTasks tasks of its own.
MaxTasks == 3
\* limitHistoryTurns is called with up to MaxLen messages and a maxTurns of
\* 1..MaxTurnsArgument.
MaxLen == 8
MaxTurnsArgument == 7

Req == 1..MaxReq
Clock == 0..MaxClock
Caller == 1..MaxCallers

\* Session ids are strings, modelled as sequences of characters.
SessionIds == { <<"a">>, <<"b">> }
NoSession == << >>

\* The AgentDaemon instances of the process; Spec has the first one only.
Daemons == {"A", "B"}
TheDaemon == "A"
NoDaemon == "none"

\* Tasks 1..MaxTasks are the host's; task MaxTasks + t is the one the body of
\* task t enqueues.
Tasks == 1..MaxTasks
InnerTask(t) == MaxTasks + t
AllTasks == 1..(2 * MaxTasks)
\* getGlobalLaneKey() and one more lane key
TaskKeys == {<<"global">>, <<"jobs">>}
Plain == <<"plain">>
NoKey == << >>

VARIABLES
  lanes,        \* lanes.ts `lanes`: Map lane key -> [queue, running]
  procs,        \* suspended processLane frames: [key, item], at `await item.task()`
  pc,           \* per request: where its run() call stands
  sess,         \* per request: options.sessionId
  taskOutcome,  \* per request: how the lane task's promise settled
  result,       \* per request: how the promise returned by run() settled
  activeRuns,   \* AgentDaemon.activeRuns, in insertion order
  runIdOf,      \* per request: the run id its task allocated
  now,          \* the reading of Date.now()
  files,        \* the sessions directory: file name -> lines
  loaded,       \* per request: the session it loaded
  saved,        \* per request: the messages it saved
  faults,       \* how many failures the environment has injected so far
  lifecycle,    \* history, per request: the notifications run() emitted
                \* for its run, in order
  sessionIO,    \* history, per request: its loadSession / saveSession calls
  allocated,    \* history: the run ids allocated at the present reading of
                \* the clock, a bag (the clock never returns to a reading)
  \* -- the session write lock (LockSpec)
  sessionLocks, \* session-manager.ts `sessionLocks`: Map file -> lock promise
  cpc,          \* per caller of saveSession / appendMessage: where it stands
  cop,          \* per caller: the function it called
  cfile,        \* per caller: its sessionFile
  cwait,        \* per caller: the lock promise it awaits (0: none)
  \* -- the tool-calling loop (LoopSpec)
  provider,     \* RunContext.provider: which run*AgentTurn runs
  lpc,          \* where the loop stands: idle, await, tools, returned, threw
  iterations,   \* `iterations`
  newMessages,  \* `newMessages`
  finalResponse,\* `finalResponse`
  totalInputTokens,  \* `totalInputTokens`
  totalOutputTokens, \* `totalOutputTokens`
  currentText,  \* `currentText` of the iteration under way
  toolCalls,    \* the (parsed) tool calls of the iteration under way
  toolResults,  \* `toolResults` of the iteration under way
  stopReason,   \* response.stop_reason of the iteration under way
  thrown,       \* where the exception the loop raised came from (<< >>: none)
  thrownMessage,\* err.message of that exception
  agentResult,  \* what runAgent returned
  requests,     \* history: how many model requests were dispatched
  allMessages,  \* history: `messages` of the request dispatched last
  received,     \* history: the responses the backend delivered, as delivered
  partialReplies,\* history, per response: what the loop did with the stream's
                \* events, in order (onPartialReply calls, tool-call deltas)
  toolsRun,     \* history: how many times a tool's execute was invoked
  toolLog,      \* history: one entry per executeTool call, in call order
  abortSignal,  \* toolContext.abortSignal.aborted
  deviations,   \* how many non-standard responses / outcomes were drawn
  \* -- the host program around the daemons (HostSpec, SnapshotSpec)
  daemonOf,     \* per request: the AgentDaemon instance run() was called on
  snapshot,     \* the array getActiveRuns() returned last, as its holder sees it
  observerSteps,\* how many times the holder called or mutated so far
  \* -- one session over its successive runs (HistorySpec)
  stored,       \* session.messages as the last successful run saved them
  dispatched,   \* the longest conversation the last run sent to the backend
  turns,        \* how many runs the session has had
  toolRuns,     \* how many of them called tools
  \* -- tasks that enqueue tasks (NestSpec; the lanes are `lanes`)
  taskState,    \* per task: idle, queued, running (its own work is under
                \* way), awaiting (the task it enqueued), done
  taskKey,      \* per task: the lane key it was enqueued under
  taskKind,     \* per task: "plain", or the key under which its body
                \* enqueues a task whose result it awaits
  \* -- one call of limitHistoryTurns (LimitSpec)
  limitInput,   \* its `messages`
  limitMaxTurns,\* its `maxTurns`
  limitOutput   \* what it returned

daemonVars == <<lanes, procs, pc, sess, taskOutcome, result,
                activeRuns, runIdOf, now, files, loaded, saved, faults,
                lifecycle, allocated, sessionIO>>

lockVars == <<sessionLocks, cpc, cop, cfile, cwait>>

loopVars == <<provider, lpc, iterations, newMessages, finalResponse,
              totalInputTokens, totalOutputTokens,
              currentText, toolCalls, toolResults, stopReason, thrown,
              thrownMessage, agentResult,
              requests, allMessages, received, partialReplies, toolsRun,
              toolLog, abortSignal, deviations>>

snapVars == <<snapshot, observerSteps>>

hostVars == <<snapshot, observerSteps, daemonOf>>

histVars == <<stored, dispatched, turns, toolRuns>>

nestVars == <<taskState, taskKey, taskKind>>

\* The daemon's variables but `lanes`.
daemonRest == <<procs, pc, sess, taskOutcome, result,
                activeRuns, runIdOf, now, files, loaded, saved, faults,
                lifecycle, allocated, sessionIO>>

limitVars == <<limitInput, limitMaxTurns, limitOutput>>

vars == <<daemonVars, lockVars, loopVars, hostVars, histVars, nestVars,
         limitVars>>

\* ------------------------------------------------------ JavaScript Map
MapSet(m, k, v) == [x \in (DOMAIN m) \cup {k} |-> IF x = k THEN v ELSE m[x]]
MapDeleteForgotten(m, k) == m
MapDelete(m, k) == [x \in (DOMAIN m) \ {k} |-> m[x]]
EmptyMap == << >>

\* ------------------------------------------------------------- promises
Pending == [kind |-> "pending", value |-> << >>]
Fulfilled(v) == [kind |-> "fulfilled", value |-> v]
Rejected(e) == [kind |-> "rejected", value |-> e]

\* --------------------------------------------------------------- lanes.ts
getSessionLaneKey(sessionId) == <<"session:">> \o sessionId

NewLane == [queue |-> << >>, running |-> FALSE]

\* getLane, as its effect on the map: the lane is created when absent.
getLane(ls, laneKey) ==
  IF laneKey \in DOMAIN ls THEN ls ELSE MapSet(ls, laneKey, NewLane)

\* lane.queue.push(item)
PushFront(queue, item) == <<item>> \o queue
Push(queue, item) == Append(queue, item)

\* processLane's guard `if (lane.running) return`
LaneBusyNever(ls, laneKey) == FALSE
LaneBusyAnyLane(ls, laneKey) == \E k \in DOMAIN ls : ls[k].running
LaneBusy(ls, laneKey) == ls[laneKey].running

\* lane.running = true
MarkRunningForgotten(lane) == lane
MarkRunning(lane) == [lane EXCEPT !.running = TRUE]

\* The loop of getLaneStats over lanes.values()
RECURSIVE QueuedIn(_, _)
QueuedIn(ls, keys) ==
  IF keys = {} THEN 0
  ELSE LET k == CHOOSE x \in keys : TRUE
       IN Len(ls[k].queue) + QueuedIn(ls, keys \ {k})

\* A getLaneStats that counts the task a running lane executes as queued.
getLaneStatsWithRunning(ls) ==
  [activeLanes |-> Cardinality(DOMAIN ls),
   totalQueuedTasks |-> QueuedIn(ls, DOMAIN ls)
                          + Cardinality({k \in DOMAIN ls : ls[k].running})]

getLaneStats(ls) ==
  [activeLanes |-> Cardinality(DOMAIN ls),
   totalQueuedTasks |-> QueuedIn(ls, DOMAIN ls)]

\* item.resolve(result) in the try block, item.reject(error) in the catch
SettleItemSwallow(outcome) ==
  IF outcome.kind = "rejected" THEN Fulfilled(outcome.value) ELSE outcome
SettleItem(outcome) == outcome

\* ------------------------------------------------------------- daemon.ts
RunId(sessionId, t) == [sessionId |-> sessionId, ts |-> t]
NoRunId == [sessionId |-> NoSession, ts |-> 0 - 1]

RunIndex(runs, runId) ==
  IF \E i \in 1..Len(runs) : runs[i].runId = runId
  THEN CHOOSE i \in 1..Len(runs) : runs[i].runId = runId
  ELSE 0

\* this.activeRuns.set(runId, run): a present key keeps its place
RunsSet(runs, run) ==
  IF RunIndex(runs, run.runId) = 0
  THEN Append(runs, run)
  ELSE [runs EXCEPT ![RunIndex(runs, run.runId)] = run]

\* this.activeRuns.delete(runId)
RunsDelete(runs, runId) ==
  LET i == RunIndex(runs, runId)
  IN IF i = 0 THEN runs
     ELSE SubSeq(runs, 1, i - 1) \o SubSeq(runs, i + 1, Len(runs))

\* The allocations that an allocation at reading t can collide with.
AllocatedAt(bag, t) ==
  [runId \in {i \in DOMAIN bag : i.ts = t} |-> bag[runId]]

\* The state the synchronous code of the scheduler and of run() works on.
World ==
  [lanes |-> lanes, procs |-> procs, pc |-> pc, sess |-> sess,
   taskOutcome |-> taskOutcome, activeRuns |-> activeRuns, runIdOf |-> runIdOf,
   lifecycle |-> lifecycle, allocated |-> allocated]

Commit(w) ==
  /\ lanes' = w.lanes
  /\ procs' = w.procs
  /\ pc' = w.pc
  /\ sess' = w.sess
  /\ taskOutcome' = w.taskOutcome
  /\ activeRuns' = w.activeRuns
  /\ runIdOf' = w.runIdOf
  /\ lifecycle' = w.lifecycle
  /\ allocated' = w.allocated

\* The lane task of run(), from its first line to its first suspension:
\* the run is tracked, run:start is emitted, runAgent is called and suspends
\* at `await loadSession`.  A run:start listener that throws makes emit throw,
\* outside the try block: the task's promise rejects at once.
RunTaskStart(w, r, t, startThrows) ==
  LET runId == RunId(w.sess[r], t)
      run == [runId |-> runId, sessionId |-> w.sess[r], startedAt |-> t,
              aborted |-> FALSE, owner |-> r]
      tracked == [w EXCEPT !.activeRuns = RunsSet(@, run), !.runIdOf[r] = runId,
                           !.lifecycle[r] = <<"run:start">>,
                           !.allocated = @ (+) SetToBag({runId})]
  IN IF startThrows
     THEN [tracked EXCEPT !.pc[r] = "settled", !.runIdOf[r] = NoRunId,
                          !.taskOutcome[r] = Rejected(<<"listener", r>>)]
     ELSE [tracked EXCEPT !.pc[r] = "load"]

\* processLane's while loop, from its test to the next suspension or to the
\* end of the function.
ProcessLoop(w, laneKey, t, startThrows) ==
  LET lane == IF laneKey \in DOMAIN w.lanes THEN w.lanes[laneKey] ELSE NewLane
  IN IF Len(lane.queue) > 0
     THEN LET item == Head(lane.queue)
              shifted == [w EXCEPT !.lanes[laneKey].queue = Tail(@),
                                   !.procs = @ \cup {[key |-> laneKey, item |-> item]}]
          IN RunTaskStart(shifted, item, t, startThrows)
     ELSE [w EXCEPT !.lanes = MapDelete(@, laneKey)]

\* A processLane that leaves the queue to a later call.
processLaneLater(w, laneKey, t, startThrows) == w

processLane(w, laneKey, t, startThrows) ==
  IF LaneBusy(w.lanes, laneKey)
  THEN w
  ELSE ProcessLoop([w EXCEPT !.lanes[laneKey] = MarkRunning(@)], laneKey, t, startThrows)

enqueueInLane(w, laneKey, r, t, startThrows) ==
  LET made == [w EXCEPT !.lanes = getLane(@, laneKey)]
      pushed == [made EXCEPT !.lanes[laneKey].queue = Push(@, r), !.pc[r] = "queued"]
  IN processLane(pushed, laneKey, t, startThrows)

enqueueInSessionLane(w, sessionId, r, t, startThrows) ==
  enqueueInLane(w, getSessionLaneKey(sessionId), r, t, startThrows)

\* ----------------------------------------------------- session-manager.ts
MAX_HISTORY_TURNS == 50

\* The characters [a-zA-Z0-9-_] that occur in the modelled session ids.
SafeChars == {"a", "b", "c", "0", "1", "-", "_"}

\* sessionId.replace(/[^a-zA-Z0-9-_]/g, "_"), then `${safeId}.jsonl`
resolveSessionFile(sessionId) ==
  [i \in 1..Len(sessionId) |->
     IF sessionId[i] \in SafeChars THEN sessionId[i] ELSE "_"] \o <<".jsonl">>

\* Array.prototype.slice(k), k any integer (slice(-0) is slice(0))
SliceFrom(messages, k) ==
  LET len == Len(messages)
      start == IF k < 0 THEN (IF len + k < 0 THEN 0 ELSE len + k)
               ELSE (IF k > len THEN len ELSE k)
  IN SubSeq(messages, start + 1, len)

limitHistoryTurns(messages, maxTurns) ==
  IF Len(messages) <= maxTurns
  THEN messages
  ELSE <<messages[1]>> \o SliceFrom(messages, 0 - (maxTurns - 1))

\* JSON.stringify of one message / JSON.parse of one line
Stringify(msg) == [json |-> msg]
Parse(line) == line.json

\* saveSession: the metadata line, then one line per message
SessionFileLines(session) ==
  <<[meta |-> session.sessionId]>> \o
  [i \in 1..Len(session.messages) |-> Stringify(session.messages[i])]

\* loadSession: null for a missing or empty file; the first line is the
\* metadata, the rest are the messages.  createSession stands in for null.
ParseLines(lines) == [i \in 1..(Len(lines) - 1) |-> Parse(lines[i + 1])]

loadSession(fs, sessionFile) ==
  IF sessionFile \notin DOMAIN fs \/ Len(fs[sessionFile]) = 0
  THEN [found |-> FALSE, messages |-> << >>]
  ELSE [found |-> TRUE, messages |-> ParseLines(fs[sessionFile])]

\* --------------------------------------------------------------- runAgent
UserMessage(r) == [role |-> "user", content |-> r]

\* What the tool-calling loop of request r appends (the loop itself is modelled by LoopSpec).
NewMessages(r) == <<[role |-> "assistant", content |-> r]>>

\* session.messages = [...limitedHistory, userMessage, ...result.newMessages]
SessionMessages(r, history) ==
  limitHistoryTurns(history, MAX_HISTORY_TURNS) \o <<UserMessage(r)>> \o NewMessages(r)

NotYet == [done |-> FALSE, messages |-> << >>]

\* ----------------------------------------------------------------- state
DaemonIdle ==
  /\ lanes = EmptyMap
  /\ procs = {}
  /\ pc = [r \in Req |-> "idle"]
  /\ sess = [r \in Req |-> NoSession]
  /\ taskOutcome = [r \in Req |-> Pending]
  /\ result = [r \in Req |-> Pending]
  /\ activeRuns = << >>
  /\ runIdOf = [r \in Req |-> NoRunId]
  /\ lifecycle = [r \in Req |-> << >>]
  /\ allocated = EmptyBag
  /\ sessionIO = [r \in Req |-> << >>]
  /\ now = 0
  /\ files = EmptyMap
  /\ loaded = [r \in Req |-> NotYet]
  /\ saved = [r \in Req |-> NotYet]
  /\ faults = 0

LockIdle ==
  /\ sessionLocks = EmptyMap
  /\ cpc = [c \in Caller |-> "idle"]
  /\ cop = [c \in Caller |-> "none"]
  /\ cfile = [c \in Caller |-> << >>]
  /\ cwait = [c \in Caller |-> 0]

\* runAgent has not returned yet.
NotReturned ==
  [returned |-> FALSE, response |-> << >>, messages |-> << >>,
   usage |-> << >>,
   error |-> [kind |-> "none", message |-> << >>]]

LoopIdle ==
  /\ provider = "none"
  /\ lpc = "idle"
  /\ iterations = 0
  /\ newMessages = << >>
  /\ finalResponse = << >>
  /\ totalInputTokens = 0
  /\ totalOutputTokens = 0
  /\ currentText = << >>
  /\ toolCalls = << >>
  /\ toolResults = << >>
  /\ stopReason = "none"
  /\ thrown = << >>
  /\ thrownMessage = << >>
  /\ agentResult = NotReturned
  /\ requests = 0
  /\ allMessages = << >>
  /\ partialReplies = << >>
  /\ received = << >>
  /\ toolsRun = 0
  /\ toolLog = << >>
  /\ abortSignal = FALSE
  /\ deviations = 0

\* No daemon has been called and getActiveRuns has returned nothing yet.
NoSnapshot == << >>

HostIdle ==
  /\ daemonOf = [r \in Req |-> NoDaemon]
  /\ snapshot = NoSnapshot
  /\ observerSteps = 0

HistIdle ==
  /\ stored = << >>
  /\ dispatched = << >>
  /\ turns = 0
  /\ toolRuns = 0

NestIdle ==
  /\ taskState = [t \in AllTasks |-> "idle"]
  /\ taskKey = [t \in AllTasks |-> NoKey]
  /\ taskKind = [t \in AllTasks |-> NoKey]

NotApplied == [applied |-> FALSE, messages |-> << >>]

LimitIdle ==
  /\ limitInput = << >>
  /\ limitMaxTurns = MAX_HISTORY_TURNS
  /\ limitOutput = NotApplied

Init ==
  DaemonIdle /\ LockIdle /\ LoopIdle /\ HostIdle /\ HistIdle /\ NestIdle
    /\ LimitIdle

\* The environment injects failures (a listener that throws, an I/O or a
\* backend error), at most MaxFaults of them in a behaviour.
Inject2(failure1, failure2) ==
  LET n == (IF failure1 THEN 1 ELSE 0) + (IF failure2 THEN 1 ELSE 0)
  IN /\ faults + n <= MaxFaults
     /\ faults' = faults + n

Inject(failure) == Inject2(failure, FALSE)

\* d.run({sessionId}): the call itself, up to the first suspension.
\* Date.now() is read when a task starts; t is that reading, which never runs
\* backwards.
Run(d, r, sessionId, t, startThrows) ==
  /\ UNCHANGED <<lockVars, loopVars, snapVars, histVars, nestVars, limitVars>>
  /\ daemonOf' = [daemonOf EXCEPT ![r] = d]
  /\ pc[r] = "idle"
  /\ \A q \in Req : q < r => pc[q] # "idle"
  /\ t >= now
  /\ now' = t
  /\ LET w == enqueueInSessionLane([World EXCEPT !.sess[r] = sessionId,
                                                 !.allocated = AllocatedAt(@, t)],
                                   sessionId, r, t, startThrows)
     IN /\ startThrows => w.taskOutcome # taskOutcome
        /\ Commit(w)
  /\ Inject(startThrows)
  /\ UNCHANGED <<result, files, loaded, saved, sessionIO>>

\* run(), after `await runAgent(params)` settles: run:end is emitted and the
\* result returned, or (runAgent rejected, or a run:end listener threw)
\* run:error is emitted and the error rethrown; finally the run is deleted.
\* runAgent's return and this continuation are consecutive microtasks: no I/O
\* completion comes between them, so they belong to the step that ends runAgent.
RunTaskEnd(w, r, outcome, endThrows) ==
  [w EXCEPT !.taskOutcome[r] =
              IF outcome = "threw" THEN Rejected(<<"runAgent", r>>)
              ELSE IF endThrows THEN Rejected(<<"listener", r>>)
              ELSE Fulfilled(<<outcome, r>>),
            !.lifecycle[r] =
              @ \o (IF outcome = "threw" THEN <<"run:error">>
                    ELSE IF endThrows THEN <<"run:end", "run:error">>
                    ELSE <<"run:end">>),
            !.activeRuns = RunsDelete(@, w.runIdOf[r]),
            !.runIdOf[r] = NoRunId,
            !.pc[r] = "settled"]

\* runAgent: loadSession (and the other awaits before the try block) settle.
\* A failure here rejects runAgent's promise.
Load(r, ok) ==
  /\ UNCHANGED <<lockVars, loopVars, hostVars, histVars, nestVars, limitVars>>
  /\ pc[r] = "load"
  /\ Inject(~ok)
  /\ sessionIO' = [sessionIO EXCEPT ![r] = Append(@, "loadSession")]
  /\ IF ok
     THEN /\ loaded' = [loaded EXCEPT ![r] =
                 [done |-> TRUE,
                  messages |-> loadSession(files, resolveSessionFile(sess[r])).messages]]
          /\ pc' = [pc EXCEPT ![r] = "loop"]
          /\ UNCHANGED <<taskOutcome, activeRuns, runIdOf, lifecycle, allocated>>
     ELSE /\ Commit(RunTaskEnd(World, r, "threw", FALSE))
          /\ UNCHANGED loaded
  /\ UNCHANGED <<lanes, procs, sess, result, now, files, saved>>

\* runAgent: the tool-calling loop returns (saveSession is called) or throws
\* (the catch block returns a structured error result).
Loop(r, ok, endThrows) ==
  /\ UNCHANGED <<lockVars, loopVars, hostVars, histVars, nestVars, limitVars>>
  /\ pc[r] = "loop"
  /\ Inject2(~ok, endThrows)
  /\ IF ok
     THEN /\ ~endThrows
          /\ pc' = [pc EXCEPT ![r] = "save"]
          /\ UNCHANGED <<taskOutcome, activeRuns, runIdOf, lifecycle, allocated>>
     ELSE /\ Commit(RunTaskEnd(World, r, "error_result", endThrows))
  /\ UNCHANGED <<lanes, procs, sess, result, now, files, loaded, saved,
                 sessionIO>>

\* runAgent: saveSession settles; a failure is caught like a loop failure.
Save(r, ok, endThrows) ==
  /\ UNCHANGED <<lockVars, loopVars, hostVars, histVars, nestVars, limitVars>>
  /\ pc[r] = "save"
  /\ Inject2(~ok, endThrows)
  /\ LET msgs == SessionMessages(r, loaded[r].messages)
     IN IF ok
        THEN /\ files' = MapSet(files, resolveSessionFile(sess[r]),
                                SessionFileLines([sessionId |-> sess[r], messages |-> msgs]))
             /\ saved' = [saved EXCEPT ![r] = [done |-> TRUE, messages |-> msgs]]
             /\ Commit(RunTaskEnd(World, r, "result", endThrows))
        ELSE /\ Commit(RunTaskEnd(World, r, "error_result", endThrows))
             /\ UNCHANGED <<files, saved>>
  /\ sessionIO' = [sessionIO EXCEPT ![r] = Append(@, "saveSession")]
  /\ UNCHANGED <<result, now, loaded>>

\* processLane resumes after `await item.task()`: the item's promise is
\* settled and the loop goes on with the next item, or the lane is removed.
LaneResume(p, t, startThrows) ==
  /\ UNCHANGED <<lockVars, loopVars, hostVars, histVars, nestVars, limitVars>>
  /\ p \in procs
  /\ pc[p.item] = "settled"
  /\ t >= now
  /\ now' = t
  /\ result' = [result EXCEPT ![p.item] = SettleItem(taskOutcome[p.item])]
  /\ LET w == ProcessLoop([World EXCEPT !.pc[p.item] = "done", !.procs = @ \ {p},
                                        !.allocated = AllocatedAt(@, t)],
                          p.key, t, startThrows)
     IN /\ startThrows => w.taskOutcome # taskOutcome
        /\ Commit(w)
  /\ Inject(startThrows)
  /\ UNCHANGED <<files, loaded, saved, sessionIO>>

\* daemon.cancelRun(sessionId): the first run of that session is aborted.
CancelIndex(runs, sessionId) ==
  IF \E i \in 1..Len(runs) : runs[i].sessionId = sessionId
  THEN CHOOSE i \in 1..Len(runs) :
         /\ runs[i].sessionId = sessionId
         /\ \A j \in 1..(i - 1) : runs[j].sessionId # sessionId
  ELSE 0

\* A cancelRun that also forgets the run it aborted.
cancelRunForgetting(runs, sessionId) ==
  LET i == CancelIndex(runs, sessionId)
  IN IF i = 0 THEN [runs |-> runs, returned |-> FALSE]
     ELSE [runs |-> RunsDelete(runs, runs[i].runId), returned |-> TRUE]

\* A cancelRun that goes on after the first Run of the session.
cancelRunEvery(runs, sessionId) ==
  [runs |-> [i \in 1..Len(runs) |->
               IF runs[i].sessionId = sessionId
               THEN [runs[i] EXCEPT !.aborted = TRUE]
               ELSE runs[i]],
   returned |-> CancelIndex(runs, sessionId) # 0]

\* cancelRun as a function of the map: the map afterwards, the value returned
cancelRun(runs, sessionId) ==
  LET i == CancelIndex(runs, sessionId)
  IN IF i = 0 THEN [runs |-> runs, returned |-> FALSE]
     ELSE [runs |-> [runs EXCEPT ![i].aborted = TRUE], returned |-> TRUE]

CancelRun(sessionId) ==
  /\ UNCHANGED <<lockVars, loopVars, hostVars, histVars, nestVars, limitVars>>
  /\ activeRuns' = cancelRun(activeRuns, sessionId).runs
  /\ UNCHANGED <<lanes, procs, pc, sess, taskOutcome, result,
                 runIdOf, now, files, loaded, saved, faults, lifecycle,
                 sessionIO,
                 allocated>>

Next ==
  \/ \E r \in Req, s \in SessionIds, t \in Clock, th \in BOOLEAN :
       Run(TheDaemon, r, s, t, th)
  \/ \E r \in Req, ok \in BOOLEAN : Load(r, ok)
  \/ \E r \in Req, ok \in BOOLEAN, th \in BOOLEAN : Loop(r, ok, th)
  \/ \E r \in Req, ok \in BOOLEAN, th \in BOOLEAN : Save(r, ok, th)
  \/ \E p \in procs, t \in Clock, th \in BOOLEAN : LaneResume(p, t, th)
  \/ \E s \in SessionIds : CancelRun(s)

Spec == Init /\ [][Next]_vars

\* ---------------------------------------------- the holder of a snapshot
\* `new Date()` of the task of request r: the object, not its value.  The
\* Run of that task holds it as startedAt, and run.startedAt in the model is
\* its present value.
DateOf(r) == [date |-> r]

\* Array.from(this.activeRuns.entries()).map(...): a new array of new
\* objects; runId and sessionId are strings, startedAt is the Run's Date.
getActiveRuns(runs) ==
  [i \in 1..Len(runs) |->
     [runId |-> runs[i].runId, sessionId |-> runs[i].sessionId,
      startedAt |-> DateOf(runs[i].owner)]]

\* date.setTime(t), as its effect on the Run that holds the same Date
DateSetTime(runs, date, t) ==
  [j \in 1..Len(runs) |->
     IF DateOf(runs[j].owner) = date
     THEN [runs[j] EXCEPT !.startedAt = t]
     ELSE runs[j]]

ObserverStep ==
  /\ observerSteps < MaxObserverSteps
  /\ observerSteps' = observerSteps + 1
  /\ UNCHANGED <<lockVars, loopVars, daemonOf, histVars, nestVars, limitVars>>

\* The host calls daemon.getActiveRuns() and keeps the array.
GetActiveRuns ==
  /\ ObserverStep
  /\ snapshot' = getActiveRuns(activeRuns)
  /\ UNCHANGED daemonVars

\* snapshot.pop()
SnapshotPop ==
  /\ ObserverStep
  /\ Len(snapshot) > 0
  /\ snapshot' = SubSeq(snapshot, 1, Len(snapshot) - 1)
  /\ UNCHANGED daemonVars

\* snapshot[i].sessionId = sessionId
SnapshotAssign(i, sessionId) ==
  /\ ObserverStep
  /\ i \in 1..Len(snapshot)
  /\ snapshot' = [snapshot EXCEPT ![i].sessionId = sessionId]
  /\ UNCHANGED daemonVars

\* snapshot[i].startedAt.setTime(t)
SnapshotSetTime(i, t) ==
  /\ ObserverStep
  /\ i \in 1..Len(snapshot)
  /\ activeRuns' = DateSetTime(activeRuns, snapshot[i].startedAt, t)
  /\ UNCHANGED <<lanes, procs, pc, sess, taskOutcome, result,
                 runIdOf, now, files, loaded, saved, faults, lifecycle,
                 sessionIO,
                 allocated, snapshot>>

ObserverNext ==
  \/ SnapshotPop
  \/ \E i \in 1..MaxReq, sessionId \in SessionIds : SnapshotAssign(i, sessionId)
  \/ \E i \in 1..MaxReq, t \in Clock : SnapshotSetTime(i, t)

\* The daemon's steps when no listener throws and no I/O fails.
CalmNext ==
  \/ \E r \in Req, s \in SessionIds, t \in Clock : Run(TheDaemon, r, s, t, FALSE)
  \/ \E r \in Req : Load(r, TRUE)
  \/ \E r \in Req : Loop(r, TRUE, FALSE)
  \/ \E r \in Req : Save(r, TRUE, FALSE)
  \/ \E p \in procs, t \in Clock : LaneResume(p, t, FALSE)

SnapshotNext ==
  \/ CalmNext
  \/ \E s \in SessionIds : CancelRun(s)
  \/ GetActiveRuns
  \/ ObserverNext

SnapshotSpec == Init /\ [][SnapshotNext]_vars

\* ------------------------------------------- two daemons in one process
\* `lanes` is a constant of the module lanes.ts: every AgentDaemon enqueues
\* into the same map.  Each daemon has its own activeRuns; the model keeps
\* their entries in one sequence, an entry belonging to the daemon of its
\* owner (without failures no two entries of the process share a run id).
RunsOf(d, runs) == SelectSeq(runs, LAMBDA run : daemonOf[run.owner] = d)

\* d.getStats()
getStats(d) ==
  [activeRuns |-> Len(RunsOf(d, activeRuns)),
   activeLanes |-> getLaneStats(lanes).activeLanes,
   totalQueuedTasks |-> getLaneStats(lanes).totalQueuedTasks]

HostNext ==
  \/ CalmNext
  \/ \E d \in Daemons \ {TheDaemon}, r \in Req, s \in SessionIds, t \in Clock :
       Run(d, r, s, t, FALSE)

HostSpec == Init /\ [][HostNext]_vars

\* ------------------------------------------------------------ vocabulary
LaneKeyOf(r) == getSessionLaneKey(sess[r])
Called(r) == pc[r] # "idle"
Started(r) == pc[r] \notin {"idle", "queued"}
Settled(r) == pc[r] \in {"settled", "done"}
Executing(r) == Started(r) /\ ~Settled(r)
SameKey(r1, r2) == Called(r1) /\ Called(r2) /\ LaneKeyOf(r1) = LaneKeyOf(r2)

SameSession(r1, r2) == Called(r1) /\ Called(r2) /\ sess[r1] = sess[r2]

\* The model reads a lane through its key; that is the code's reference to the
\* lane object as long as a key has at most one processLane frame, on a lane
\* that is in the map.
LaneRefsLive ==
  /\ \A p \in procs : p.key \in DOMAIN lanes /\ lanes[p.key].running
  /\ \A p1, p2 \in procs : p1.key = p2.key => p1 = p2
  /\ \A k \in DOMAIN lanes : \E p \in procs : p.key = k

\* ------------------------------------------------------------------ claims

\* C1: for every lane key, at most one task enqueued under that key is
\* executing (started and not yet settled) at any time.
C1_OneExecutingPerKey ==
  \A r1, r2 \in Req :
    (SameKey(r1, r2) /\ Executing(r1) /\ Executing(r2)) => r1 = r2

\* C1's case: a task is executing while another task of its key waits.
C1_Witness ==
  \E r1, r2 \in Req : SameKey(r1, r2) /\ Executing(r1) /\ pc[r2] = "queued"

\* C2: tasks of one key execute in arrival order: when the later enqueued of
\* two tasks of a key has started, the earlier one has settled.
C2_ArrivalOrder ==
  \A r1, r2 \in Req :
    (r1 < r2 /\ SameKey(r1, r2) /\ Started(r2)) => Settled(r1)

\* C2's case: three tasks of one key; the first is through, the second runs,
\* the third still waits.
C2_Witness ==
  \E r1, r2, r3 \in Req :
    /\ r1 < r2 /\ r2 < r3
    /\ SameKey(r1, r2) /\ SameKey(r2, r3)
    /\ pc[r1] = "done" /\ Executing(r2) /\ pc[r3] = "queued"

\* C3: a task waits for tasks of its own key only: whenever a task is still
\* queued, an earlier task of the same key is unfinished, whatever the tasks
\* of other keys do.  (That two lanes execute at once is C3_Witness.)
C3_NoCrossKeyWait ==
  \A r \in Req :
    pc[r] = "queued" =>
      \E q \in Req : q < r /\ SameKey(q, r) /\ pc[q] # "done"

\* C3's case: two lanes each have an executing task, the later one started
\* while the earlier one was still executing.
C3_Witness ==
  \E r1, r2 \in Req :
    /\ r1 < r2 /\ Called(r1) /\ Called(r2) /\ ~SameKey(r1, r2)
    /\ Executing(r1) /\ Executing(r2)

\* C4: the promise returned for a task settles with that task's own outcome
\* (rejected with its own error, or fulfilled with its own result), no other
\* promise is settled by it, and a queued task always has a live processLane
\* frame on its lane: the lane keeps draining after a failure.
C4_FailureIsolation ==
  /\ \A r \in Req : pc[r] = "done" => result[r] = taskOutcome[r]
  /\ \A r \in Req : pc[r] # "done" => result[r] = Pending
  /\ \A r \in Req :
       pc[r] = "queued" =>
         /\ LaneKeyOf(r) \in DOMAIN lanes
         /\ \E i \in 1..Len(lanes[LaneKeyOf(r)].queue) : lanes[LaneKeyOf(r)].queue[i] = r
         /\ \E p \in procs : p.key = LaneKeyOf(r) /\ pc[p.item] # "done"

\* C4's case: [fail, succeed] on one key: the first promise is rejected with
\* its own error, the second is fulfilled with its own result.
C4_Witness ==
  \E r1, r2 \in Req :
    /\ r1 < r2 /\ SameKey(r1, r2)
    /\ pc[r1] = "done" /\ result[r1].kind = "rejected" /\ result[r1].value[2] = r1
    /\ pc[r2] = "done" /\ result[r2] = Fulfilled(<<"result", r2>>)

\* C5: no two entries of the active-run map carry the same session id.
C5_OneRunPerSession ==
  \A i, j \in 1..Len(activeRuns) :
    activeRuns[i].sessionId = activeRuns[j].sessionId => i = j

\* C6: a Run entry is gone once the promise returned by its run() has
\* settled, and the map is empty once every request made has settled.
C6_RunRemovedWhenSettled ==
  /\ \A r \in Req :
       pc[r] = "done" => \A i \in 1..Len(activeRuns) : activeRuns[i].owner # r
  /\ (\A r \in Req : pc[r] \in {"idle", "done"}) => activeRuns = << >>

\* C7: of two requests of one session, the later does not load the session
\* before the earlier has settled, and it loads exactly what the last earlier
\* request that saved had written.
C7_NoLostUpdate ==
  \A r1, r2 \in Req :
    (r1 < r2 /\ SameSession(r1, r2) /\ loaded[r2].done) =>
      /\ Settled(r1)
      /\ (/\ saved[r1].done
          /\ \A q \in Req : (r1 < q /\ q < r2 /\ SameSession(q, r2)) => ~saved[q].done)
         => loaded[r2].messages = saved[r1].messages

\* C7's case: the later request has loaded what the earlier one saved.
C7_Witness ==
  \E r1, r2 \in Req :
    /\ r1 < r2 /\ SameSession(r1, r2)
    /\ saved[r1].done /\ loaded[r2].done
    /\ Len(saved[r1].messages) > 0
    /\ loaded[r2].messages = saved[r1].messages

\* ------------------------------------------------- the session write lock
\* Callers of saveSession / appendMessage, numbered in the order of their
\* calls.  The lock promise a caller creates is named by the caller.
SessionFiles == {resolveSessionFile(s) : s \in SessionIds}
LockOps == {"saveSession", "appendMessage"}

\* saveSession awaits fs.mkdir and then fs.writeFile under the lock,
\* appendMessage awaits fs.appendFile.
FirstPhase(op) == IF op = "saveSession" THEN "mkdir" ELSE "write"

Holding(c) == cpc[c] \in {"mkdir", "write"}

\* acquireSessionLock, past the wait: `sessionLocks.set(sessionFile, lockPromise)`
\* with the caller's own new promise, whatever the map holds by then.
TakeLock(locks, sessionFile, c) == MapSet(locks, sessionFile, c)

\* The callers suspended at `await existingLock` on promise `lock`, in the
\* order in which they called.
Waiters(lock) == {c \in Caller : cpc[c] = "waiting" /\ cwait[c] = lock}

RECURSIVE WakeAll(_, _, _)
WakeAll(locks, sessionFile, waiting) ==
  IF waiting = {} THEN locks
  ELSE LET c == CHOOSE x \in waiting : \A y \in waiting : x <= y
       IN WakeAll(TakeLock(locks, sessionFile, c), sessionFile, waiting \ {c})

\* release(): `sessionLocks.delete(sessionFile); releaseLock()`.  Resolving
\* the promise resumes every caller that awaits it, one after the other and
\* before any I/O completion; none of them looks at the map again.
ReleaseLock(c) ==
  /\ sessionLocks' = WakeAll(MapDelete(sessionLocks, cfile[c]), cfile[c], Waiters(c))
  /\ cpc' = [x \in Caller |->
               IF x = c THEN "done"
               ELSE IF x \in Waiters(c) THEN FirstPhase(cop[x])
               ELSE cpc[x]]
  /\ cwait' = [x \in Caller |-> IF x \in Waiters(c) THEN 0 ELSE cwait[x]]

\* saveSession(sessionFile, ..) / appendMessage(sessionFile, ..) is called:
\* acquireSessionLock runs up to `await existingLock`, or takes the lock.
LockCall(c, sessionFile, op) ==
  /\ cpc[c] = "idle"
  /\ \A x \in Caller : x < c => cpc[x] # "idle"
  /\ cfile' = [cfile EXCEPT ![c] = sessionFile]
  /\ cop' = [cop EXCEPT ![c] = op]
  /\ IF sessionFile \in DOMAIN sessionLocks
     THEN /\ cwait' = [cwait EXCEPT ![c] = sessionLocks[sessionFile]]
          /\ cpc' = [cpc EXCEPT ![c] = "waiting"]
          /\ UNCHANGED sessionLocks
     ELSE /\ sessionLocks' = TakeLock(sessionLocks, sessionFile, c)
          /\ cpc' = [cpc EXCEPT ![c] = FirstPhase(op)]
          /\ UNCHANGED cwait
  /\ UNCHANGED <<daemonVars, loopVars, hostVars, histVars, nestVars, limitVars>>

\* saveSession: fs.mkdir settles; writeFile starts, or (mkdir failed) the
\* finally block releases the lock.
LockMkdir(c, ok) ==
  /\ cpc[c] = "mkdir"
  /\ IF ok
     THEN /\ cpc' = [cpc EXCEPT ![c] = "write"]
          /\ UNCHANGED <<sessionLocks, cwait>>
     ELSE ReleaseLock(c)
  /\ UNCHANGED <<cop, cfile>>
  /\ UNCHANGED <<daemonVars, loopVars, hostVars, histVars, nestVars, limitVars>>

\* fs.writeFile / fs.appendFile settles; the finally block releases the lock.
LockWrite(c) ==
  /\ cpc[c] = "write"
  /\ ReleaseLock(c)
  /\ UNCHANGED <<cop, cfile>>
  /\ UNCHANGED <<daemonVars, loopVars, hostVars, histVars, nestVars, limitVars>>

LockNext ==
  \/ \E c \in Caller, f \in SessionFiles, op \in LockOps : LockCall(c, f, op)
  \/ \E c \in Caller, ok \in BOOLEAN : LockMkdir(c, ok)
  \/ \E c \in Caller : LockWrite(c)

LockSpec == Init /\ [][LockNext]_vars

\* C8: for one session file, at most one caller of saveSession /
\* appendMessage is between acquiring and releasing the write lock.
C8_LockMutualExclusion ==
  \A c1, c2 \in Caller :
    (Holding(c1) /\ Holding(c2) /\ cfile[c1] = cfile[c2]) => c1 = c2

\* ---------------------------------------------------------------------
\* The tool-calling loop: daemon.ts runAnthropicAgentTurn and
\* runOpenAIAgentTurn, with executeTool.
\* Texts (message content, tool names, argument text) are sequences of
\* tokens, so that s \o t is the concatenation `s + t`; the empty text is
\* << >>.  A JSON object is the set of its <<key, value>> pairs.
\* ---------------------------------------------------------------------

\* At most MaxDeviations responses / tool outcomes of a behaviour differ
\* from the standard one (text, then one call of a registered tool that
\* succeeds).
MaxDeviations == 1

\* cancelRun reaches a run no later than during this request of the loop.
MaxAbortRequest == 2

MAX_TOOL_ITERATIONS == 25

Providers == {"anthropic", "openai"}

\* ctx.tools, by name: "read" resolves, "fail" throws (or rejects)
RegisteredTools == { <<"read">>, <<"fail">> }

\* What tool.execute of a registered tool does.
ToolOutcome(toolName) == IF toolName = <<"fail">> THEN "throws" ELSE "ok"

NoError == << >>

RECURSIVE Concat(_)
Concat(texts) ==
  IF texts = << >> THEN << >> ELSE Head(texts) \o Concat(Tail(texts))

\* text.includes(part)
Includes(text, part) ==
  \E j \in 0..(Len(text) - Len(part)) :
    SubSeq(text, j + 1, j + Len(part)) = part

\* JSON.parse on the argument texts that can be built from the fragments
\* "{}", "{p:" and "1}": the only texts that are JSON are "{}" and "{p:1}".
JSONParse(text) ==
  IF text = <<"{}">> THEN [ok |-> TRUE, value |-> {}]
  ELSE IF text = <<"{p:", "1}">> THEN [ok |-> TRUE, value |-> {<<"p", 1>>}]
  ELSE [ok |-> FALSE, value |-> {}]

\* `tc.arguments ? JSON.parse(tc.arguments) : {}`
ParseArguments(text) ==
  IF text # << >> THEN JSONParse(text) ELSE [ok |-> TRUE, value |-> {}]

\* The two messages an iteration pushes.  `toolCalls: undefined` and an
\* absent toolResults are << >> (the code never stores an empty list).
AssistantMessage(text, calls) ==
  [role |-> "assistant", content |-> text,
   toolCalls |-> calls, toolResults |-> << >>]

CarrierMessage(results) ==
  [role |-> "user", content |-> << >>,
   toolCalls |-> << >>, toolResults |-> results]

\* -- runAgent around the loop
\* session.messages as loadSession delivered them, and the new user turn
LoadedHistory ==
  <<[role |-> "user", content |-> <<"earlier prompt">>,
     toolCalls |-> << >>, toolResults |-> << >>],
    [role |-> "assistant", content |-> <<"earlier reply">>,
     toolCalls |-> << >>, toolResults |-> << >>]>>

PromptMessage ==
  [role |-> "user", content |-> <<"prompt">>,
   toolCalls |-> << >>, toolResults |-> << >>]

\* `messages = [...limitedHistory, userMessage]`
TurnMessages ==
  limitHistoryTurns(LoadedHistory, MAX_HISTORY_TURNS) \o <<PromptMessage>>

\* -- what a request carries
\* `messages.filter(m => m.role !== "system")`
NotSystem(m) == m.role # "system"

\* JSON.stringify of the argument values JSONParse yields.
JSONStringify(value) == IF value = {} THEN <<"{}">> ELSE <<"{p:", "1}">>

\* toAnthropicMessages, one message: text and tool_use blocks for an
\* assistant message with tool calls, tool_result blocks for a carrier, the
\* plain content otherwise.
AnthropicParam(m) ==
  IF m.role = "assistant" /\ Len(m.toolCalls) > 0
  THEN [role |-> "assistant",
        content |->
          (IF m.content # << >>
           THEN <<[type |-> "text", text |-> m.content]>> ELSE << >>)
          \o [i \in 1..Len(m.toolCalls) |->
                [type |-> "tool_use", id |-> m.toolCalls[i].id,
                 name |-> m.toolCalls[i].name,
                 input |-> m.toolCalls[i].arguments]]]
  ELSE IF m.role = "user" /\ Len(m.toolResults) > 0
  THEN [role |-> "user",
        content |->
          [i \in 1..Len(m.toolResults) |->
             [type |-> "tool_result",
              tool_use_id |-> m.toolResults[i].toolCallId,
              content |-> m.toolResults[i].content,
              is_error |-> m.toolResults[i].isError]]]
  ELSE [role |-> m.role, content |-> m.content]

toAnthropicMessages(messages) ==
  LET kept == SelectSeq(messages, NotSystem)
  IN [i \in 1..Len(kept) |-> AnthropicParam(kept[i])]

SystemPrompt == <<"system prompt">>

\* toOpenAIMessages, one message: a carrier becomes one "tool" message per
\* result.
OpenAIParams(m) ==
  IF m.role = "assistant" /\ Len(m.toolCalls) > 0
  THEN <<[role |-> "assistant", content |-> m.content,
          tool_calls |->
            [i \in 1..Len(m.toolCalls) |->
               [id |-> m.toolCalls[i].id, type |-> "function",
                name |-> m.toolCalls[i].name,
                arguments |-> JSONStringify(m.toolCalls[i].arguments)]]]>>
  ELSE IF m.role = "user" /\ Len(m.toolResults) > 0
  THEN [i \in 1..Len(m.toolResults) |->
          [role |-> "tool",
           tool_call_id |-> m.toolResults[i].toolCallId,
           content |-> m.toolResults[i].content]]
  ELSE <<[role |-> m.role, content |-> m.content]>>

\* The loop of toOpenAIMessages from the i-th kept message on: every message
\* pushes its parameters onto the result.
RECURSIVE OpenAIFrom(_, _)
OpenAIFrom(kept, i) ==
  IF i > Len(kept) THEN << >>
  ELSE OpenAIParams(kept[i]) \o OpenAIFrom(kept, i + 1)

toOpenAIMessages(messages, systemPrompt) ==
  <<[role |-> "system", content |-> systemPrompt]>>
    \o OpenAIFrom(SelectSeq(messages, NotSystem), 1)

\* The `messages` of the request the loop of provider p makes with the
\* loop buffer as it stands:
\*   Anthropic `[...anthropicMessages, ...toAnthropicMessages(newMessages)]`
\*   OpenAI    `toOpenAIMessages([...messages, ...newMessages], systemPrompt)`
RequestWithoutBuffer(p, messages, buffer) ==
  IF p = "anthropic"
  THEN toAnthropicMessages(messages)
  ELSE toOpenAIMessages(messages, SystemPrompt)
RequestMessages(p, messages, buffer) ==
  IF p = "anthropic"
  THEN toAnthropicMessages(messages) \o toAnthropicMessages(buffer)
  ELSE toOpenAIMessages(messages \o buffer, SystemPrompt)

\* -- Anthropic dialect: stream "text" events, then the final message
IsToolUse(block) == block.type = "tool_use"

\* `for (const block of response.content) if (block.type === "tool_use") ...`
AnthropicToolCalls(content) ==
  LET uses == SelectSeq(content, IsToolUse)
  IN [i \in 1..Len(uses) |->
        [id |-> uses[i].id, name |-> uses[i].name, arguments |-> uses[i].input]]

\* `stream.on("text", text => currentText += text)`
AnthropicText(deltas) == Concat(deltas)

\* ... `ctx.onPartialReply?.(text)`, once per "text" event
AnthropicForwarded(deltas) ==
  [i \in 1..Len(deltas) |-> <<"onPartialReply", deltas[i]>>]

\* -- OpenAI dialect: chunks with delta.content and delta.tool_calls
StreamStart ==
  [currentText |-> << >>, toolCalls |-> << >>, currentToolCallIndex |-> 0 - 1,
   handled |-> << >>, inputTokens |-> 0, outputTokens |-> 0]

\* `toolCalls[tc.index] = entry`; array index i is position i + 1.  The
\* streams of this model never skip an index, so no hole is created.
SetAt(array, index, entry) ==
  IF index + 1 <= Len(array)
  THEN [array EXCEPT ![index + 1] = entry]
  ELSE Append(array, entry)

\* One element of delta.tool_calls.
ApplyToolCallDelta(acc, tc) ==
  IF tc.index # acc.currentToolCallIndex
  THEN [acc EXCEPT !.currentToolCallIndex = tc.index,
                   !.toolCalls = SetAt(@, tc.index,
                        [id |-> tc.id, name |-> tc.name,
                         arguments |-> tc.arguments])]
  ELSE [acc EXCEPT !.toolCalls[tc.index + 1] =
                        [id |-> IF tc.id # << >> THEN tc.id ELSE @.id,
                         name |-> @.name \o tc.name,
                         arguments |-> @.arguments \o tc.arguments]]

RECURSIVE ApplyToolCallDeltas(_, _)
ApplyToolCallDeltas(acc, tcs) ==
  IF tcs = << >> THEN acc
  ELSE ApplyToolCallDeltas(
         [ApplyToolCallDelta(acc, Head(tcs)) EXCEPT
            !.handled = Append(@, <<"tool_call", Head(tcs).index>>)],
         Tail(tcs))

\* `if (delta.content) { currentText += delta.content;
\*                        ctx.onPartialReply?.(delta.content) }`
ApplyContentUnforwarded(acc, content) ==
  IF content # << >>
  THEN [acc EXCEPT !.currentText = @ \o content]
  ELSE acc
ApplyContent(acc, content) ==
  IF content # << >>
  THEN [acc EXCEPT !.currentText = @ \o content,
                   !.handled = Append(@, <<"onPartialReply", content>>)]
  ELSE acc

\* `total += reported`
AddUsageReset(total, reported) == reported
AddUsage(total, reported) == total + reported

\* `if (chunk.usage) { totalInputTokens += chunk.usage.prompt_tokens || 0;
\*                      totalOutputTokens += chunk.usage.completion_tokens || 0 }`
\* (what the stream adds to the totals is kept in the accumulator)
ApplyUsage(acc, usage) ==
  IF usage # << >>
  THEN [acc EXCEPT !.inputTokens = AddUsage(@, usage[1].prompt_tokens),
                   !.outputTokens = AddUsage(@, usage[1].completion_tokens)]
  ELSE acc

\* One chunk: its usage, then its text delta, then its tool-call deltas.
ApplyChunk(acc, chunk) ==
  ApplyToolCallDeltas(ApplyContent(ApplyUsage(acc, chunk.usage), chunk.content),
                      chunk.tool_calls)

\* `for await (const chunk of stream) ...`
RECURSIVE ConsumeStream(_, _)
ConsumeStream(acc, chunks) ==
  IF chunks = << >> THEN acc
  ELSE ConsumeStream(ApplyChunk(acc, Head(chunks)), Tail(chunks))

\* `toolCalls.map(tc => ({..., arguments: ... JSON.parse ...}))`: throws
\* when one argument text is not JSON.
ArgumentsDecode(calls) ==
  \A i \in 1..Len(calls) : ParseArguments(calls[i].arguments).ok

ParsedToolCalls(calls) ==
  [i \in 1..Len(calls) |->
     [id |-> calls[i].id, name |-> calls[i].name,
      arguments |-> ParseArguments(calls[i].arguments).value]]

\* -- executeTool: outcome is what tool.execute does ("ok" or "throws")
ToolRegistered(toolName) == toolName \in RegisteredTools

UnknownToolUnflagged(toolName) ==
  [content |-> <<"Error: Unknown tool \"">> \o toolName \o <<"\"">>,
   isError |-> FALSE]
\* `if (!tool) return {content: `Error: Unknown tool "${toolName}"`, ...}`
UnknownToolResult(toolName) ==
  [content |-> <<"Error: Unknown tool \"">> \o toolName \o <<"\"">>,
   isError |-> TRUE]

ToolFailureUnflagged(toolName, message) ==
  [content |-> <<"Error executing tool ">> \o toolName
                 \o <<": ">> \o message,
   isError |-> FALSE]
\* the catch block: `Error executing tool ${toolName}: ${err.message}`
ToolFailureResult(toolName, message) ==
  [content |-> <<"Error executing tool ">> \o toolName
                 \o <<": ">> \o message,
   isError |-> TRUE]

executeTool(toolName, outcome) ==
  IF ~ToolRegistered(toolName)
  THEN UnknownToolResult(toolName)
  ELSE IF outcome = "ok"
  THEN [content |-> <<"out">>, isError |-> FALSE]
  ELSE ToolFailureResult(toolName, <<"boom">>)

\* -- what the backend delivers for the k-th request
CallId(k, i) == <<"call", k, i>>

TextBlock(text) ==
  [type |-> "text", text |-> text, id |-> << >>, name |-> << >>, input |-> {}]

ToolUseBlock(k, i, name) ==
  [type |-> "tool_use", text |-> << >>, id |-> CallId(k, i), name |-> name,
   input |-> {<<"p", 1>>}]

\* response.usage of the k-th request: the conversation grows with k.
AnthropicUsage(k, output) == [input_tokens |-> 10 * k, output_tokens |-> output]

AnthropicStandard(k) ==
  [deltas |-> << <<"t">> >>,
   content |-> <<TextBlock(<<"t">>), ToolUseBlock(k, 1, <<"read">>)>>,
   stop_reason |-> "tool_use", usage |-> AnthropicUsage(k, 3)]

AnthropicOther(k) ==
  { \* text in two deltas, no tool call
    [deltas |-> << <<"t">>, <<"u">> >>,
     content |-> <<TextBlock(<<"t", "u">>)>>,
     stop_reason |-> "end_turn", usage |-> AnthropicUsage(k, 2)],
    \* a tool call and the natural-end indicator
    [deltas |-> << <<"t">> >>,
     content |-> <<TextBlock(<<"t">>), ToolUseBlock(k, 1, <<"read">>)>>,
     stop_reason |-> "end_turn", usage |-> AnthropicUsage(k, 3)],
    \* three tool calls: of a tool that throws, of a tool that is not
    \* registered, of a tool that succeeds
    [deltas |-> << <<"t">> >>,
     content |-> <<TextBlock(<<"t">>), ToolUseBlock(k, 1, <<"fail">>),
                   ToolUseBlock(k, 2, <<"nope">>),
                   ToolUseBlock(k, 3, <<"read">>)>>,
     stop_reason |-> "tool_use", usage |-> AnthropicUsage(k, 7)] }

\* chunk.choices[0]: delta.content, delta.tool_calls and finish_reason
\* ("null" until the last chunk of the choice).
\* chunk.usage is << >> (null) except in a usage chunk.
Chunk(content, tcs) ==
  [content |-> content, tool_calls |-> tcs, finish_reason |-> "null",
   usage |-> << >>]

FinishChunk(reason) ==
  [content |-> << >>, tool_calls |-> << >>, finish_reason |-> reason,
   usage |-> << >>]

\* The chunk `stream_options: {include_usage: true}` asks for: no choice
\* (so no delta), and the usage of the k-th request.
UsageChunk(k, completion) ==
  [content |-> << >>, tool_calls |-> << >>, finish_reason |-> "null",
   usage |-> <<[prompt_tokens |-> 10 * k, completion_tokens |-> completion]>>]

ToolCallDelta(index, id, name, arguments) ==
  [index |-> index, id |-> id, name |-> name, arguments |-> arguments]

CallHead(k, i, name, arguments) ==
  Chunk(<< >>, <<ToolCallDelta(i - 1, CallId(k, i), name, arguments)>>)

CallMore(i, arguments) ==
  Chunk(<< >>, <<ToolCallDelta(i - 1, << >>, << >>, arguments)>>)

OpenAIStandard(k) ==
  <<Chunk(<<"t">>, << >>),
    CallHead(k, 1, <<"read">>, <<"{p:">>), CallMore(1, <<"1}">>),
    FinishChunk("tool_calls"),
      UsageChunk(k, 3)>>

OpenAIOther(k) ==
  { \* text in two deltas, no tool call
    <<Chunk(<<"t">>, << >>), Chunk(<<"u">>, << >>), FinishChunk("stop"),
      UsageChunk(k, 2)>>,
    \* a tool call and the natural-end indicator
    <<Chunk(<<"t">>, << >>),
      CallHead(k, 1, <<"read">>, <<"{p:">>), CallMore(1, <<"1}">>),
      FinishChunk("stop"),
      UsageChunk(k, 3)>>,
    \* three tool calls one after the other: of a tool that throws, of a
    \* tool that is not registered, of a tool that succeeds
    <<Chunk(<<"t">>, << >>),
      CallHead(k, 1, <<"fail">>, <<"{p:">>), CallMore(1, <<"1}">>),
      CallHead(k, 2, <<"nope">>, <<"{}">>),
      CallHead(k, 3, <<"read">>, <<"{p:">>), CallMore(3, <<"1}">>),
      FinishChunk("tool_calls"),
      UsageChunk(k, 7)>>,
    \* two tool calls, their argument fragments interleaved
    <<Chunk(<<"t">>, << >>),
      CallHead(k, 1, <<"read">>, <<"{p:">>),
      CallHead(k, 2, <<"read">>, <<"{p:">>),
      CallMore(1, <<"1}">>), CallMore(2, <<"1}">>),
      FinishChunk("tool_calls"),
      UsageChunk(k, 6)>>,
    \* a tool call whose argument text is cut short
    <<Chunk(<<"t">>, << >>), CallHead(k, 1, <<"read">>, <<"{p:">>),
      FinishChunk("length"),
      UsageChunk(k, 1)>> }

\* What the backend may deliver for the k-th request.
AnthropicResponses(k) ==
  {AnthropicStandard(k)} \cup
    (IF deviations < MaxDeviations THEN AnthropicOther(k) ELSE {})

OpenAIResponses(k) ==
  {OpenAIStandard(k)} \cup
    (IF deviations < MaxDeviations THEN OpenAIOther(k) ELSE {})

\* A draw outside the standard uses up one deviation.
Deviate(nonStandard) ==
  LET n == IF nonStandard THEN 1 ELSE 0
  IN /\ deviations + n <= MaxDeviations
     /\ deviations' = deviations + n

\* -- the loop
LoopContinuesPastCap(n) == n <= MAX_TOOL_ITERATIONS
\* `while (iterations < MAX_TOOL_ITERATIONS)`
LoopContinues(n) == n < MAX_TOOL_ITERATIONS

FinalTextForgotten(text) == << >>
\* `finalResponse = currentText`
FinalText(text) == text

\* `if (toolCalls.length === 0)`
NoToolCalls(calls) == Len(calls) = 0

\* `if (response.stop_reason === "end_turn")`: the Anthropic loop only
StopsAtEndTurn(p, reason) == p = "anthropic" /\ reason = "end_turn"

\* The head of the while loop, after n iterations: either `iterations++`
\* and the next request is dispatched, or the loop falls through to return.
LoopHead(p, n) ==
  IF LoopContinues(n)
  THEN /\ iterations' = n + 1
       /\ requests' = requests + 1
       /\ lpc' = "await"
       /\ allMessages' = RequestMessages(p, TurnMessages, newMessages')
  ELSE /\ iterations' = n
       /\ requests' = requests
       /\ allMessages' = allMessages
       /\ lpc' = "returned"

\* runAgent dispatches on the provider; the turn runs up to its first await.
RunAgentTurn(p) ==
  /\ lpc = "idle"
  /\ provider' = p
  /\ newMessages' = << >>
  /\ finalResponse' = << >>
  /\ totalInputTokens' = 0
  /\ totalOutputTokens' = 0
  /\ LoopHead(p, 0)
  /\ UNCHANGED <<currentText, toolCalls, toolResults, stopReason, thrown, thrownMessage,
                 received, partialReplies, toolsRun, toolLog, abortSignal,
                 deviations>>
  /\ UNCHANGED <<daemonVars, lockVars, hostVars, histVars, nestVars, limitVars, agentResult>>

\* After the stream: push the assistant message, then break or go on to
\* the tools.
AfterStream(text, calls, reason) ==
  /\ currentText' = text
  /\ toolCalls' = calls
  /\ toolResults' = << >>
  /\ stopReason' = reason
  /\ newMessages' = Append(newMessages, AssistantMessage(text, calls))
  /\ IF NoToolCalls(calls)
     THEN /\ finalResponse' = FinalText(text)
          /\ lpc' = "returned"
     ELSE /\ lpc' = "tools"
          /\ UNCHANGED finalResponse
  /\ UNCHANGED <<provider, iterations, thrown, thrownMessage, requests, allMessages, toolsRun,
                 toolLog, abortSignal>>

\* `await stream.finalMessage()` resolves.
AnthropicFinalMessage(response) ==
  /\ lpc = "await"
  /\ provider = "anthropic"
  /\ Deviate(response # AnthropicStandard(requests))
  /\ received' = Append(received, response)
  /\ partialReplies' = Append(partialReplies, AnthropicForwarded(response.deltas))
  /\ totalInputTokens' = AddUsage(totalInputTokens, response.usage.input_tokens)
  /\ totalOutputTokens' = AddUsage(totalOutputTokens, response.usage.output_tokens)
  /\ AfterStream(AnthropicText(response.deltas),
                 AnthropicToolCalls(response.content),
                 response.stop_reason)
  /\ UNCHANGED <<daemonVars, lockVars, hostVars, histVars, nestVars, limitVars, agentResult>>

\* The chunk stream ends: the argument texts are parsed.
OpenAIStreamEnd(chunks) ==
  /\ lpc = "await"
  /\ provider = "openai"
  /\ Deviate(chunks # OpenAIStandard(requests))
  /\ received' = Append(received, chunks)
  /\ partialReplies' =
       Append(partialReplies, ConsumeStream(StreamStart, chunks).handled)
  /\ totalInputTokens' =
       AddUsage(totalInputTokens, ConsumeStream(StreamStart, chunks).inputTokens)
  /\ totalOutputTokens' =
       AddUsage(totalOutputTokens, ConsumeStream(StreamStart, chunks).outputTokens)
  /\ LET acc == ConsumeStream(StreamStart, chunks)
     IN IF ArgumentsDecode(acc.toolCalls)
        THEN AfterStream(acc.currentText, ParsedToolCalls(acc.toolCalls),
                         "none")
        ELSE /\ lpc' = "threw"
             /\ thrown' = <<"SyntaxError">>
             /\ thrownMessage' = <<"Unexpected end of JSON input">>
             /\ UNCHANGED <<provider, iterations, newMessages, finalResponse,
                            currentText, toolCalls, toolResults, stopReason,
                            requests, allMessages, toolsRun, toolLog,
                            abortSignal>>
  /\ UNCHANGED <<daemonVars, lockVars, hostVars, histVars, nestVars, limitVars, agentResult>>

\* The backend call rejects with an error whose text is message.
BackendFails(message) ==
  /\ lpc = "await"
  /\ Deviate(TRUE)
  /\ lpc' = "threw"
  /\ thrown' = <<"backend">>
  /\ thrownMessage' = message
  /\ UNCHANGED <<provider, iterations, newMessages, finalResponse,
                 currentText, toolCalls, toolResults, stopReason,
                 requests, allMessages, received, partialReplies, toolsRun, toolLog, abortSignal, totalInputTokens, totalOutputTokens>>
  /\ UNCHANGED <<daemonVars, lockVars, hostVars, histVars, nestVars, limitVars, agentResult>>

ToolResultOfName(toolCall, res) ==
  [toolCallId |-> toolCall.name, content |-> res.content,
   isError |-> res.isError]

\* `toolResults.push({toolCallId, content, isError})`
ToolResultOf(toolCall, res) ==
  [toolCallId |-> toolCall.id, content |-> res.content,
   isError |-> res.isError]

\* What executeTool does for a registered tool up to its await, in order:
\* `ctx.onToolExecution?.(toolName, args)`, then `tool.execute(args, ...)`.
StartEventsLate(toolName) ==
  <<<<"execute", toolName>>, <<"onToolExecution", toolName>>>>
StartEvents(toolName) ==
  <<<<"onToolExecution", toolName>>, <<"execute", toolName>>>>

\* ... and after it: tool.execute has settled, then
\* `ctx.onToolResult?.(toolName, content)` in the try or in the catch block.
EndEvents(toolName, res) ==
  <<<<"settled", toolName>>, <<"onToolResult", toolName, res.content>>>>

\* One executeTool call as the history keeps it: the call, whether
\* tool.execute was invoked, the abort signal its scope carried then, how
\* tool.execute ended ("pending" while it runs, "none" if not invoked), and
\* what the call has done so far, in order.
LogEntry(toolCall, executed, outcome) ==
  [toolCallId |-> toolCall.id, name |-> toolCall.name,
   executed |-> executed, signal |-> abortSignal, outcome |-> outcome,
   events |-> IF executed THEN StartEvents(toolCall.name) ELSE << >>]

\* After `await executeTool(...)` returned for a call: the next call of the
\* response, or the carrier message and what follows it.
AfterToolCall(results) ==
  /\ toolResults' = results
  /\ IF Len(results) < Len(toolCalls)
     THEN /\ lpc' = "tools"
          /\ UNCHANGED <<iterations, newMessages, finalResponse, requests, allMessages>>
     ELSE /\ newMessages' = Append(newMessages, CarrierMessage(results))
          /\ IF StopsAtEndTurn(provider, stopReason)
             THEN /\ finalResponse' = FinalText(currentText)
                  /\ lpc' = "returned"
                  /\ UNCHANGED <<iterations, requests, allMessages>>
             ELSE /\ LoopHead(provider, iterations)
                  /\ UNCHANGED finalResponse

\* `await executeTool(...)` for the next call of the response, up to
\* `await tool.execute(args, ctx.toolContext)`.  A tool that is not
\* registered gets its error result at once; for a registered one
\* ctx.onToolExecution fires (observerThrows: it throws, outside the try)
\* and tool.execute is invoked.
ToolStart(observerThrows) ==
  /\ lpc = "tools"
  /\ LET toolCall == toolCalls[Len(toolResults) + 1]
     IN /\ observerThrows => ToolRegistered(toolCall.name)
        /\ Deviate(observerThrows)
        /\ IF ~ToolRegistered(toolCall.name)
           THEN /\ toolLog' = Append(toolLog, LogEntry(toolCall, FALSE, "none"))
                /\ AfterToolCall(Append(toolResults,
                      ToolResultOf(toolCall, executeTool(toolCall.name, "ok"))))
                /\ UNCHANGED <<toolsRun, thrown, thrownMessage>>
           ELSE IF observerThrows
           THEN /\ lpc' = "threw"
                /\ thrown' = <<"observer">>
                /\ thrownMessage' = <<"observer failed">>
                /\ UNCHANGED <<iterations, newMessages, finalResponse,
                               toolResults, requests, allMessages, toolsRun, toolLog>>
           ELSE /\ toolsRun' = toolsRun + 1
                /\ toolLog' = Append(toolLog, LogEntry(toolCall, TRUE, "pending"))
                /\ lpc' = "executing"
                /\ UNCHANGED <<iterations, newMessages, finalResponse,
                               toolResults, requests, allMessages, thrown, thrownMessage>>
  /\ UNCHANGED <<provider, currentText, toolCalls, stopReason, received, partialReplies,
                 abortSignal, totalInputTokens, totalOutputTokens>>
  /\ UNCHANGED <<daemonVars, lockVars, hostVars, histVars, nestVars, limitVars, agentResult>>

\* tool.execute settles: outcome is "ok" (it resolves) or "throws" (it
\* throws or rejects); executeTool returns the result either way.
ToolEnd(outcome) ==
  /\ lpc = "executing"
  /\ LET toolCall == toolCalls[Len(toolResults) + 1]
     IN /\ outcome = ToolOutcome(toolCall.name)
        /\ AfterToolCall(Append(toolResults,
              ToolResultOf(toolCall, executeTool(toolCall.name, outcome))))
  /\ toolLog' = [toolLog EXCEPT
       ![Len(toolLog)].outcome = outcome,
       ![Len(toolLog)].events =
          @ \o EndEvents(toolCalls[Len(toolResults) + 1].name,
                         executeTool(toolCalls[Len(toolResults) + 1].name,
                                     outcome))]
  /\ UNCHANGED <<provider, currentText, toolCalls, stopReason, received, partialReplies,
                 thrown, thrownMessage, toolsRun, abortSignal, totalInputTokens, totalOutputTokens, deviations>>
  /\ UNCHANGED <<daemonVars, lockVars, hostVars, histVars, nestVars, limitVars, agentResult>>

\* cancelRun found this run: `run.abortController.abort()`, while the loop
\* is suspended on the backend or on a tool, during one of the first
\* MaxAbortRequest requests.  Nothing of the loop reads the signal; it is
\* handed to the tools in ctx.toolContext.
Abort ==
  /\ lpc \in {"await", "executing"}
  /\ requests <= MaxAbortRequest
  /\ ~abortSignal
  /\ Deviate(TRUE)
  /\ abortSignal' = TRUE
  /\ UNCHANGED <<totalInputTokens, totalOutputTokens>>
  /\ UNCHANGED <<provider, lpc, iterations, newMessages, finalResponse,
                 currentText, toolCalls, toolResults, stopReason, thrown, thrownMessage,
                 requests, allMessages, received, partialReplies, toolsRun, toolLog>>
  /\ UNCHANGED <<daemonVars, lockVars, hostVars, histVars, nestVars, limitVars, agentResult>>

\* The error texts a failing backend call may carry.
BackendErrors ==
  { <<"400 ", "context_length_exceeded">>,
    <<"too many tokens">>,
    <<"429 ", "rate_limit", "_error">>,
    <<"ThrottlingException">>,
    <<"rate_limit", " reached: ", "context_length_exceeded">>,
    <<"AccessDeniedException", " during ", "rate_limit">>,
    <<"UnauthorizedException">>,
    <<"ResourceNotFoundException">>,
    <<"model not found", ": ", "AccessDeniedException">>,
    <<"socket hang up">> }

ErrorResult(kind, message) ==
  [returned |-> TRUE, response |-> << >>, messages |-> LoadedHistory,
   usage |-> << >>,
   error |-> [kind |-> kind, message |-> message]]

\* A classification that tests the rate-limit signatures first.
classifyRateLimitFirst(message) ==
  IF Includes(message, <<"rate_limit">>)
     \/ Includes(message, <<"ThrottlingException">>)
  THEN ErrorResult("rate_limit", <<"Rate limit exceeded.">>)
  ELSE IF Includes(message, <<"context_length_exceeded">>)
          \/ Includes(message, <<"too many tokens">>)
  THEN ErrorResult("context_overflow", <<"Context length exceeded.">>)
  ELSE ErrorResult("unknown", message)

\* A classification that tests the model signatures before the
\* authentication signatures.
classifyModelBeforeAuth(message) ==
  IF Includes(message, <<"context_length_exceeded">>)
     \/ Includes(message, <<"too many tokens">>)
  THEN ErrorResult("context_overflow", <<"Context length exceeded.">>)
  ELSE IF Includes(message, <<"rate_limit">>)
          \/ Includes(message, <<"ThrottlingException">>)
  THEN ErrorResult("rate_limit", <<"Rate limit exceeded.">>)
  ELSE IF Includes(message, <<"ResourceNotFoundException">>)
          \/ Includes(message, <<"model not found">>)
  THEN ErrorResult("model_not_found", <<"Model not found for ", provider>>)
  ELSE IF Includes(message, <<"AccessDeniedException">>)
          \/ Includes(message, <<"UnauthorizedException">>)
  THEN ErrorResult("auth_error", <<"Authentication failed for ", provider>>)
  ELSE ErrorResult("unknown", message)

\* The catch block of runAgent: `session.messages` is still what was loaded.
classifyError(message) ==
  IF Includes(message, <<"context_length_exceeded">>)
     \/ Includes(message, <<"too many tokens">>)
  THEN ErrorResult("context_overflow", <<"Context length exceeded.">>)
  ELSE IF Includes(message, <<"rate_limit">>)
          \/ Includes(message, <<"ThrottlingException">>)
  THEN ErrorResult("rate_limit", <<"Rate limit exceeded.">>)
  ELSE IF Includes(message, <<"AccessDeniedException">>)
          \/ Includes(message, <<"UnauthorizedException">>)
  THEN ErrorResult("auth_error", <<"Authentication failed for ", provider>>)
  ELSE IF Includes(message, <<"ResourceNotFoundException">>)
          \/ Includes(message, <<"model not found">>)
  THEN ErrorResult("model_not_found", <<"Model not found for ", provider>>)
  ELSE ErrorResult("unknown", message)

\* The turn returned: session.messages is rebuilt and saved (the save
\* succeeds here; its failure is part of Spec), and runAgent returns.
SuccessResult ==
  [returned |-> TRUE, response |-> finalResponse,
   messages |-> TurnMessages \o newMessages,
   usage |-> <<[inputTokens |-> totalInputTokens,
                outputTokens |-> totalOutputTokens]>>,
   error |-> [kind |-> "none", message |-> << >>]]

\* runAgent returns: the result of the turn, or the catch block's result.
RunAgentReturn ==
  /\ lpc \in {"returned", "threw"}
  /\ ~agentResult.returned
  /\ agentResult' =
       IF lpc = "returned" THEN SuccessResult ELSE classifyError(thrownMessage)
  /\ UNCHANGED <<provider, lpc, iterations, newMessages, finalResponse,
                 currentText, toolCalls, toolResults, stopReason, thrown,
                 thrownMessage, requests, allMessages, received, partialReplies, toolsRun, toolLog,
                 abortSignal, totalInputTokens, totalOutputTokens, deviations>>
  /\ UNCHANGED <<daemonVars, lockVars, hostVars, histVars, nestVars, limitVars>>

LoopNext ==
  \/ \E p \in Providers : RunAgentTurn(p)
  \/ /\ lpc = "await"
     /\ provider = "anthropic"
     /\ \E response \in AnthropicResponses(requests) :
          AnthropicFinalMessage(response)
  \/ /\ lpc = "await"
     /\ provider = "openai"
     /\ \E chunks \in OpenAIResponses(requests) : OpenAIStreamEnd(chunks)
  \/ /\ lpc = "await"
     /\ \E message \in BackendErrors : BackendFails(message)
  \/ \E observerThrows \in BOOLEAN : ToolStart(observerThrows)
  \/ \E outcome \in {"ok", "throws"} : ToolEnd(outcome)
  \/ Abort
  \/ RunAgentReturn

\* Every backend call and every tool call comes to an end.
LoopSpec == Init /\ [][LoopNext]_vars /\ WF_vars(LoopNext)

\* ----------------------------------------- tasks that enqueue tasks
\* A host of lanes.ts whose tasks are either plain (some work, then done) or
\* enqueue one plain task under a key and await its result.
NestWorld == [lanes |-> lanes, state |-> taskState, key |-> taskKey,
              kind |-> taskKind]

RECURSIVE EnqueueTask(_, _, _), TaskLoop(_, _), StartItem(_, _)

\* `const result = await item.task()`: the body of the task runs up to its
\* first await.  A plain task suspends on its work; the other kind calls
\* enqueueInLane for its inner task and awaits the promise it gets.
StartItem(w, t) ==
  IF w.kind[t] = Plain
  THEN [w EXCEPT !.state[t] = "running"]
  ELSE EnqueueTask([w EXCEPT !.state[t] = "awaiting"], w.kind[t], InnerTask(t))

\* The while loop of processLane, from its test to the next suspension,
\* and what follows the loop.
TaskLoop(w, laneKey) ==
  LET lane == w.lanes[laneKey]
  IN IF Len(lane.queue) > 0
     THEN StartItem([w EXCEPT !.lanes[laneKey].queue = Tail(lane.queue)],
                    Head(lane.queue))
     ELSE [w EXCEPT !.lanes = MapDelete(w.lanes, laneKey)]

\* enqueueInLane(laneKey, task): getLane, push, processLane up to its first
\* suspension.
EnqueueTask(w, laneKey, t) ==
  LET ls == getLane(w.lanes, laneKey)
      pushed == [w EXCEPT !.lanes = [ls EXCEPT ![laneKey].queue = Push(@, t)],
                          !.state[t] = "queued",
                          !.key[t] = laneKey]
  IN IF LaneBusy(ls, laneKey)
     THEN pushed
     ELSE TaskLoop([pushed EXCEPT !.lanes[laneKey] = MarkRunning(@)],
                      laneKey)

NestCommit(w) ==
  /\ lanes' = w.lanes
  /\ taskState' = w.state
  /\ taskKey' = w.key
  /\ taskKind' = w.kind
  /\ UNCHANGED <<daemonRest, lockVars, loopVars, hostVars, histVars, limitVars>>

\* The host calls enqueueInLane(laneKey, task) for its next task.
Enqueue(t, laneKey, kind) ==
  /\ taskState[t] = "idle"
  /\ \A u \in Tasks : u < t => taskState[u] # "idle"
  /\ NestCommit(EnqueueTask([NestWorld EXCEPT !.kind[t] = kind,
                                            !.kind[InnerTask(t)] = Plain],
                          laneKey, t))

\* The work of a plain task ends: `item.resolve(result)`, and processLane
\* goes round its loop.
TaskEnd(t) ==
  /\ taskState[t] = "running"
  /\ NestCommit(TaskLoop([NestWorld EXCEPT !.state[t] = "done"], taskKey[t]))

\* The promise a task awaits is fulfilled (its inner task is done): the
\* body returns, `item.resolve(result)`, and processLane goes round its loop.
InnerAwaited(t) ==
  /\ taskState[t] = "awaiting"
  /\ taskState[InnerTask(t)] = "done"
  /\ NestCommit(TaskLoop([NestWorld EXCEPT !.state[t] = "done"], taskKey[t]))

TaskStep == \E t \in AllTasks : TaskEnd(t) \/ InnerAwaited(t)

NestNext ==
  \/ \E t \in Tasks, laneKey \in TaskKeys, kind \in TaskKeys \cup {Plain} :
       Enqueue(t, laneKey, kind)
  \/ \E t \in AllTasks : TaskEnd(t)
  \/ \E t \in Tasks : InnerAwaited(t)

\* Work that has begun ends, and a continuation that can run is run.
NestSpec == Init /\ [][NestNext]_vars /\ WF_vars(TaskStep)

\* -------------------------------------------- limitHistoryTurns alone
\* A history of n messages, told apart by their content.
HistoryOfLength(n) == [i \in 1..n |-> UserMessage(i)]

\* The arguments of the call are drawn here.
LimitInit ==
  /\ DaemonIdle /\ LockIdle /\ LoopIdle /\ HostIdle /\ HistIdle /\ NestIdle
  /\ limitInput \in {HistoryOfLength(n) : n \in 0..MaxLen}
  /\ limitMaxTurns \in 1..MaxTurnsArgument
  /\ limitOutput = NotApplied

\* limitHistoryTurns(messages, maxTurns) is called and returns.
LimitHistory ==
  /\ ~limitOutput.applied
  /\ limitOutput' =
       [applied |-> TRUE,
        messages |-> limitHistoryTurns(limitInput, limitMaxTurns)]
  /\ UNCHANGED <<limitInput, limitMaxTurns>>
  /\ UNCHANGED <<daemonVars, lockVars, loopVars, hostVars, histVars, nestVars>>

LimitSpec == LimitInit /\ [][LimitHistory]_vars

\* ------------------------------------- one session over successive runs
\* The runs of one session are serialised by its lane; each successful run
\* loads what the previous one saved.
RunKinds == {"text", "tools", "endTurn", "cap"}

HistoryToolCall(k, i) ==
  [id |-> CallId(k, i), name |-> <<"read">>, arguments |-> {<<"p", 1>>}]

HistoryToolResult(k, i) ==
  ToolResultOf(HistoryToolCall(k, i), [content |-> <<"ok">>, isError |-> FALSE])

\* The two messages iteration i of run k pushes when its response has a
\* tool call.
ToolRound(k, i) ==
  <<AssistantMessage(<<"t">>, <<HistoryToolCall(k, i)>>),
    CarrierMessage(<<HistoryToolResult(k, i)>>)>>

RECURSIVE ToolRounds(_, _)
ToolRounds(k, n) ==
  IF n = 0 THEN << >> ELSE ToolRounds(k, n - 1) \o ToolRound(k, n)

\* result.newMessages of run k, by how its loop went:
\*   "text"     the first response has no tool call;
\*   "tools"    a response with a tool call, then one without;
\*   "endTurn"  (Anthropic) a response with a tool call and stop_reason
\*              end_turn: the loop breaks after pushing the carrier;
\*   "cap"      every response has a tool call, the loop leaves at
\*              MAX_TOOL_ITERATIONS.
LoopMessages(kind, k) ==
  CASE kind = "text"    -> <<AssistantMessage(<<"t">>, << >>)>>
    [] kind = "tools"   -> ToolRound(k, 1) \o <<AssistantMessage(<<"t">>, << >>)>>
    [] kind = "endTurn" -> ToolRound(k, 1)
    [] kind = "cap"     -> ToolRounds(k, MAX_TOOL_ITERATIONS)

\* How many of the new messages the last model request of the run carried:
\* every request sends `[...messages, ...newMessages]` as they stand then.
SentOf(kind) ==
  CASE kind = "text"    -> 0
    [] kind = "tools"   -> 2
    [] kind = "endTurn" -> 0
    [] kind = "cap"     -> 2 * (MAX_TOOL_ITERATIONS - 1)

\* One successful runAgent call on the session: load, trim, run the loop,
\* reassign session.messages, save.
SessionRun(kind) ==
  /\ turns < MaxRuns
  /\ kind # "text" => toolRuns < MaxToolRuns
  /\ LET limitedHistory == limitHistoryTurns(stored, MAX_HISTORY_TURNS)
         messages == limitedHistory \o <<PromptMessage>>
         loopMessages == LoopMessages(kind, turns + 1)
     IN /\ dispatched' = messages \o SubSeq(loopMessages, 1, SentOf(kind))
        /\ stored' = limitedHistory \o <<PromptMessage>> \o loopMessages
  /\ turns' = turns + 1
  /\ toolRuns' = IF kind = "text" THEN toolRuns ELSE toolRuns + 1
  /\ UNCHANGED <<daemonVars, lockVars, loopVars, hostVars, nestVars, limitVars>>

HistoryNext == \E kind \in RunKinds : SessionRun(kind)

HistorySpec == Init /\ [][HistoryNext]_vars

\* -- vocabulary of the loop claims, read off the responses as delivered
ZeroToolCalls(response) ==
  IF provider = "anthropic"
  THEN \A i \in 1..Len(response.content) : response.content[i].type # "tool_use"
  ELSE \A i \in 1..Len(response) : response[i].tool_calls = << >>

DeliveredText(response) ==
  IF provider = "anthropic"
  THEN Concat(response.deltas)
  ELSE Concat([i \in 1..Len(response) |-> response[i].content])

NaturalEnd(response) ==
  provider = "anthropic" /\ response.stop_reason = "end_turn"

EveryResponseHasCalls ==
  \A i \in 1..Len(received) : ~ZeroToolCalls(received[i])

SomeNaturalEnd == \E i \in 1..Len(received) : NaturalEnd(received[i])

LoopEnded == lpc \in {"returned", "threw"}

\* C9: if the first response carries no tool call, the loop has made
\* exactly one model request, has executed no tool, and has returned with
\* that response's accumulated text as the final response.
C9_ZeroCallsOneRequest ==
  (Len(received) >= 1 /\ ZeroToolCalls(received[1]))
    => /\ lpc = "returned"
       /\ requests = 1
       /\ toolsRun = 0
       /\ finalResponse = DeliveredText(received[1])

\* C9's case: a first response of two text deltas and no tool call has been
\* handled.
C9_Witness ==
  /\ Len(received) = 1
  /\ ZeroToolCalls(received[1])
  /\ lpc = "returned"
  /\ finalResponse = <<"t", "u">>

LastResponse == received[Len(received)]

\* The while condition failed: MAX_TOOL_ITERATIONS responses were handled
\* and the last one neither broke the loop nor raised.
CapReached ==
  /\ lpc = "returned"
  /\ Len(received) = MAX_TOOL_ITERATIONS
  /\ ~ZeroToolCalls(LastResponse)
  /\ ~NaturalEnd(LastResponse)

\* C11: when the iteration cap is reached, the final response returned is
\* the assistant text produced by the last iteration.
C11_CapFinalText ==
  CapReached => finalResponse = DeliveredText(LastResponse)

\* -- the stop indicator of a response, in either dialect: stop_reason
\* "end_turn" (Anthropic), finish_reason "stop" (OpenAI)
StopIndicated(response) ==
  IF provider = "anthropic"
  THEN response.stop_reason = "end_turn"
  ELSE \E i \in 1..Len(response) : response[i].finish_reason = "stop"

\* C12: a response that carries the natural-end indicator is the last one
\* requested, tool calls or not, and once the loop has returned the final
\* response is that response's accumulated text; in both dialects.
C12_StopIndicatorEnds ==
  \A i \in 1..Len(received) :
    StopIndicated(received[i])
      => /\ requests = i
         /\ lpc = "returned" => finalResponse = DeliveredText(received[i])

\* -- vocabulary of the tool claims
IsCarrier(message) == message.toolResults # << >>

\* Every ToolResult recorded so far, in order: those of the carrier messages
\* of the loop buffer, then those of the iteration whose tools are under way
\* (or were, when an observer threw).
RecordedResults ==
  LET carriers == SelectSeq(newMessages, IsCarrier)
  IN Concat([j \in 1..Len(carriers) |-> carriers[j].toolResults])
       \o (IF lpc \in {"tools", "executing"} \/ thrown = <<"observer">>
           THEN toolResults ELSE << >>)

\* The next call of the response under way.
NextToolCall == toolCalls[Len(toolResults) + 1]

UnknownToolNext == lpc = "tools" /\ ~ToolRegistered(NextToolCall.name)

\* The results of a response whose second call named the unregistered tool
\* "nope" and whose third call was executed.
UnknownThenExecuted(results) ==
  /\ Len(results) = 3
  /\ results[2].isError
  /\ Includes(results[2].content, <<"nope">>)
  /\ ~results[3].isError

\* C13: a call of a tool that is not registered executes nothing and gets
\* an error-flagged result that names the tool and carries the call's id;
\* the step that handles it raises nothing and moves on to the next call of
\* the response, or after the last call to the next model request (to the
\* return, at the cap or after end_turn).
C13_UnknownToolNotFatal ==
  /\ [](\A j \in 1..Len(toolLog) :
          ~ToolRegistered(toolLog[j].name)
            => /\ ~toolLog[j].executed
               /\ j <= Len(RecordedResults)
               /\ RecordedResults[j].isError
               /\ RecordedResults[j].toolCallId = toolLog[j].toolCallId
               /\ Includes(RecordedResults[j].content, toolLog[j].name))
  /\ [][UnknownToolNext
          => /\ toolsRun' = toolsRun
             /\ thrown' = thrown
             /\ IF Len(toolResults) + 1 < Len(toolCalls)
                THEN lpc' = "tools" /\ requests' = requests
                ELSE IF LoopContinues(iterations)
                        /\ ~StopsAtEndTurn(provider, stopReason)
                THEN lpc' = "await" /\ requests' = requests + 1
                ELSE lpc' = "returned" /\ requests' = requests]_vars

\* C13's case: the unregistered tool was called, the registered tool called
\* after it in the same response was executed, and the next model request
\* is under way.
C13_Witness ==
  /\ lpc = "await"
  /\ requests >= 2
  /\ toolsRun >= 1
  /\ \E j \in 1..Len(newMessages) :
       UnknownThenExecuted(newMessages[j].toolResults)

\* tool.execute of the call under way is about to throw.
ToolThrowsNow ==
  lpc = "executing" /\ toolLog'[Len(toolLog)].outcome = "throws"

\* The results of a response whose first call was of the tool that throws
\* and whose third call was executed.
ThrowThenExecuted(results) ==
  /\ Len(results) = 3
  /\ results[1].isError
  /\ Includes(results[1].content, <<"Error executing tool ">>)
  /\ ~results[3].isError

\* C14: a call whose tool.execute threw has an error-flagged result under
\* its id; no call is executed twice (one tool.execute per log entry, one
\* log entry per call id); the step in which tool.execute throws raises
\* nothing in the loop and moves on to the next call of the response, or
\* after the last call to the next model request (to the return, at the cap
\* or after end_turn).
C14_ToolFailureRecovered ==
  /\ [](/\ \A j \in 1..Len(toolLog) :
             toolLog[j].outcome = "throws"
               => /\ j <= Len(RecordedResults)
                  /\ RecordedResults[j].isError
                  /\ RecordedResults[j].toolCallId = toolLog[j].toolCallId
        /\ \A j1, j2 \in 1..Len(toolLog) :
             toolLog[j1].toolCallId = toolLog[j2].toolCallId => j1 = j2
        /\ toolsRun = Cardinality({j \in 1..Len(toolLog) : toolLog[j].executed}))
  /\ [][ToolThrowsNow
          => /\ toolsRun' = toolsRun
             /\ thrown' = thrown
             /\ IF Len(toolResults) + 1 < Len(toolCalls)
                THEN lpc' = "tools" /\ requests' = requests
                ELSE IF LoopContinues(iterations)
                        /\ ~StopsAtEndTurn(provider, stopReason)
                THEN lpc' = "await" /\ requests' = requests + 1
                ELSE lpc' = "returned" /\ requests' = requests]_vars

\* C14's case: the first tool of a response threw, the later registered tool
\* of the same response was executed, and the next model request is under
\* way.
C14_Witness ==
  /\ lpc = "await"
  /\ requests >= 2
  /\ thrown = NoError
  /\ \E j \in 1..Len(toolLog) : toolLog[j].outcome = "throws"
  /\ \E j \in 1..Len(newMessages) :
       ThrowThenExecuted(newMessages[j].toolResults)

\* -- vocabulary of the result claims
ErrorKinds ==
  {"context_overflow", "rate_limit", "auth_error", "model_not_found", "unknown"}

BackendFailed == agentResult.returned /\ thrown = <<"backend">>

\* C15: after a backend call failed no further request was made, runAgent
\* returned a result with a taxonomy kind and a message, and the result's
\* messages are the prior history, the new user turn and every message the
\* loop appended before the failing iteration.
C15_PartialConversationReturned ==
  BackendFailed
    => /\ requests = Len(received) + 1
       /\ agentResult.error.kind \in ErrorKinds
       /\ agentResult.error.message # << >>
       /\ agentResult.messages = TurnMessages \o newMessages

HasRateLimit == Includes(thrownMessage, <<"rate_limit">>)

HasContextLength == Includes(thrownMessage, <<"context_length_exceeded">>)

HasTooManyTokens == Includes(thrownMessage, <<"too many tokens">>)

\* C16 as stated: an error text of the backend that contains "rate_limit"
\* gives the kind rate_limit, and one that contains
\* "context_length_exceeded" gives the kind context_overflow.
C16_AsStated ==
  BackendFailed
    => /\ HasRateLimit => agentResult.error.kind = "rate_limit"
       /\ HasContextLength => agentResult.error.kind = "context_overflow"

\* C16 amended: an error text of the backend that contains
\* "context_length_exceeded" gives the kind context_overflow; one that
\* contains "rate_limit" and neither signature of a context overflow gives
\* the kind rate_limit.
C16_Amended ==
  BackendFailed
    => /\ HasContextLength => agentResult.error.kind = "context_overflow"
       /\ (HasRateLimit /\ ~HasContextLength /\ ~HasTooManyTokens)
            => agentResult.error.kind = "rate_limit"

C16_Witness ==
  /\ BackendFailed
  /\ HasRateLimit
  /\ agentResult.error.kind = "rate_limit"
  /\ requests > 1

\* -- vocabulary of the cancellation claims
HoldsRun(runs, sessionId) ==
  \E i \in 1..Len(runs) : runs[i].sessionId = sessionId

\* The same runs in the same order, whatever their signals.
SameRuns(runs1, runs2) ==
  /\ Len(runs1) = Len(runs2)
  /\ \A i \in 1..Len(runs1) :
       /\ runs1[i].runId = runs2[i].runId
       /\ runs1[i].sessionId = runs2[i].sessionId
       /\ runs1[i].owner = runs2[i].owner

CancelOutcomeRight(sessionId) ==
  LET out == cancelRun(activeRuns, sessionId)
  IN /\ out.returned <=> HoldsRun(activeRuns, sessionId)
     /\ SameRuns(activeRuns, out.runs)
     /\ out.returned =>
          \E i \in 1..Len(out.runs) :
            /\ out.runs[i].sessionId = sessionId
            /\ out.runs[i].aborted
            /\ \A j \in 1..Len(out.runs) :
                 j # i => out.runs[j] = activeRuns[j]
     /\ ~out.returned => out.runs = activeRuns

CancelFrame(sessionId) ==
  CancelRun(sessionId)
    => /\ activeRuns' = cancelRun(activeRuns, sessionId).runs
       /\ UNCHANGED <<lanes, procs, pc, taskOutcome, result, runIdOf>>

SignalOf(runs, r) ==
  /\ RunIndex(runs, runIdOf[r]) # 0
  /\ runs[RunIndex(runs, runIdOf[r])].aborted

\* C18: once cancelRun(sessionId) has returned true while a run of that
\* session is executing, the signal that run hands to its tools is set, so
\* every tool it starts from then on sees it set.
C18_CancelReachesRun ==
  [][\A sessionId \in SessionIds :
       (CancelRun(sessionId) /\ cancelRun(activeRuns, sessionId).returned)
         => \A r \in Req :
              (Executing(r) /\ sess[r] = sessionId) => SignalOf(activeRuns', r)]_vars

\* C19: no run id is allocated twice.  (Two allocations of one id read the
\* same clock value, so the second finds the first in `allocated`.)
C19_RunIdsDistinct ==
  \A runId \in BagToSet(allocated) : CopiesIn(runId, allocated) = 1

\* -- vocabulary of the lifecycle claim
Ended(r) ==
  \E j \in 1..Len(lifecycle[r]) : lifecycle[r][j] \in {"run:end", "run:error"}

LifecycleOfSettled ==
  { <<"run:start", "run:end">>, <<"run:start", "run:error">> }

\* C20: a request's notifications are run:start once, when its task begins,
\* then exactly one of run:end and run:error, and nothing after it; a later
\* request of a session is started only after every earlier request of that
\* session has had its run:end or run:error.
C20_LifecycleOrder ==
  \A r \in Req :
    /\ ~Started(r) => lifecycle[r] = << >>
    /\ Executing(r) => lifecycle[r] = <<"run:start">>
    /\ Settled(r) => lifecycle[r] \in LifecycleOfSettled
    /\ \A q \in Req :
         (q < r /\ SameSession(q, r) /\ Started(r)) => Ended(q)

\* -- vocabulary of the lane registry claims
\* The request is in its lane's queue.
Queued(r) == pc[r] = "queued"

\* processLane has shifted the request's item and not yet settled its
\* promise (item.resolve / item.reject come when processLane resumes).
InProcess(r) == pc[r] \in {"load", "loop", "save", "settled"}

LaneKeys == {getSessionLaneKey(sessionId) : sessionId \in SessionIds}

LaneLive(laneKey) ==
  \E r \in Req : Called(r) /\ LaneKeyOf(r) = laneKey /\ (Queued(r) \/ InProcess(r))

\* An enqueue on a key that has no lane creates the lane and starts the task.
EnqueueOnAbsentLane(r) ==
  (pc[r] = "idle" /\ pc'[r] # "idle" /\ LaneKeyOf(r)' \notin DOMAIN lanes)
    => /\ LaneKeyOf(r)' \in DOMAIN lanes'
       /\ pc'[r] \in {"load", "settled"}

\* C21: a key has a lane in the map exactly when a task enqueued under it is
\* queued or being processed; an enqueue on a key without a lane (the first
\* one, or one after the lane was removed) creates the lane and starts the
\* task at once.
C21_LaneExistsWhileLive ==
  /\ [](\A laneKey \in LaneKeys : laneKey \in DOMAIN lanes <=> LaneLive(laneKey))
  /\ [](DOMAIN lanes \subseteq LaneKeys)
  /\ [][\A r \in Req : EnqueueOnAbsentLane(r)]_vars

\* A second task runs on a key whose first task is done and whose lane had
\* an empty queue then.
C21_Witness ==
  \E q, r \in Req :
    /\ q < r
    /\ SameKey(q, r)
    /\ pc[q] = "done"
    /\ InProcess(r)
    /\ \E k \in LaneKeys : k \notin DOMAIN lanes

\* C22: getLaneStats reports as activeLanes the number of keys with a task
\* queued or being processed and as totalQueuedTasks the number of enqueued
\* tasks that have not started; it is a function of the lane map and writes
\* nothing.
C22_LaneStats ==
  /\ getLaneStats(lanes).activeLanes
       = Cardinality({laneKey \in LaneKeys : LaneLive(laneKey)})
  /\ getLaneStats(lanes).totalQueuedTasks
       = Cardinality({r \in Req : Queued(r)})

\* Two lanes are live, one of them with a task waiting behind the one it
\* executes.
C22_Witness ==
  /\ getLaneStats(lanes).activeLanes = 2
  /\ getLaneStats(lanes).totalQueuedTasks = 1
  /\ \E r \in Req : InProcess(r)

\* -- vocabulary of the snapshot claim
SnapshotFields == {"runId", "sessionId", "startedAt"}

\* C23: what getActiveRuns returned is a copy: it has no field that reaches a
\* Run's controller, no mutation of the array or of its elements' fields
\* changes the active-run map or a Run's recorded fields, and no later step
\* of the daemon changes the array.
C23_SnapshotIsCopy ==
  /\ [](\A i \in 1..Len(snapshot) : DOMAIN snapshot[i] = SnapshotFields)
  /\ [][ObserverNext => UNCHANGED activeRuns]_vars
  /\ [][(CalmNext \/ \E s \in SessionIds : CancelRun(s)) => UNCHANGED snapshot]_vars

\* -- vocabulary of the two-daemon claim
OnDaemon(d, r) == Called(r) /\ daemonOf[r] = d

LiveOn(d, laneKey) ==
  \E r \in Req :
    OnDaemon(d, r) /\ LaneKeyOf(r) = laneKey /\ (Queued(r) \/ InProcess(r))

\* C24: a request waits in a lane only behind a request made on its own
\* daemon, and a daemon's getStats counts the lanes and the queued tasks of
\* its own requests only.
C24_DaemonsIndependent ==
  /\ \A r \in Req :
       Queued(r) => \E q \in Req : /\ daemonOf[q] = daemonOf[r]
                                   /\ SameKey(q, r)
                                   /\ InProcess(q)
  /\ \A d \in Daemons :
       /\ getStats(d).activeLanes
            = Cardinality({laneKey \in LaneKeys : LiveOn(d, laneKey)})
       /\ getStats(d).totalQueuedTasks
            = Cardinality({r \in Req : OnDaemon(d, r) /\ Queued(r)})

\* C25: a run has called loadSession once before its loop starts and nothing
\* else until the loop has ended; once the run is over it has called
\* loadSession once and then saveSession once.
C25_LoadOnceSaveOnce ==
  \A r \in Req :
    /\ pc[r] \in {"idle", "queued", "load"} => sessionIO[r] = << >>
    /\ pc[r] \in {"loop", "save"} => sessionIO[r] = <<"loadSession">>
    /\ (Settled(r) /\ loaded[r].done)
         => sessionIO[r] = <<"loadSession", "saveSession">>

\* C26: once the cancellation signal of the run is set, the loop dispatches
\* no further model request.
C26_NoRequestAfterCancel ==
  [][abortSignal => requests' = requests]_vars

\* -- C27
IsPaired(conversation, i, toolResult) ==
  \E j \in 1..(i - 1) :
    /\ conversation[j].role = "assistant"
    /\ \E c \in 1..Len(conversation[j].toolCalls) :
         conversation[j].toolCalls[c].id = toolResult.toolCallId

ToolPairing(conversation) ==
  \A i \in 1..Len(conversation) :
    \A x \in 1..Len(conversation[i].toolResults) :
      IsPaired(conversation, i, conversation[i].toolResults[x])

\* C27: in every conversation dispatched to the backend, each ToolResult's
\* toolCallId is the id of a ToolCall of an earlier assistant message of
\* that conversation, whatever the length of the stored history.
C27_DispatchedToolPairing == ToolPairing(dispatched)

\* -- C28
\* The only user messages of the loop buffer are the carriers.
IsUserMessage(message) == message.role = "user"

\* The carrier answers the assistant message: one result per call, in the
\* calls' order, each with its call's id.
Answers(assistant, carrier) ==
  /\ assistant.role = "assistant"
  /\ Len(assistant.toolCalls) > 0
  /\ Len(carrier.toolResults) = Len(assistant.toolCalls)
  /\ \A x \in 1..Len(carrier.toolResults) :
       carrier.toolResults[x].toolCallId = assistant.toolCalls[x].id

\* C28: in the loop buffer every carrier message comes right after the
\* assistant message of its iteration (the n-th carrier is message 2n, its
\* assistant message is message 2n - 1) and carries exactly one ToolResult
\* per ToolCall of that message, in the same order and with that call's id.
C28_CarrierAnswersAssistant ==
  \A i \in 1..Len(newMessages) :
    IsUserMessage(newMessages[i]) =>
      /\ i % 2 = 0
      /\ Answers(newMessages[i - 1], newMessages[i])

\* A carrier for a response with three tool calls is in the buffer, after
\* a first iteration that left its own pair there.
C28_Witness ==
  /\ Len(newMessages) >= 4
  /\ IsUserMessage(newMessages[2])
  /\ IsUserMessage(newMessages[4])
  /\ Len(newMessages[4].toolResults) = 3

\* -- C29
\* Every element of delta.tool_calls of a chunk stream, in arrival order.
AllDeltas(chunks) == Concat([i \in 1..Len(chunks) |-> chunks[i].tool_calls])

\* The argument fragments received for one call index, concatenated in
\* arrival order.
FragmentsOf(chunks, index) ==
  LET own == SelectSeq(AllDeltas(chunks), LAMBDA tc : tc.index = index)
  IN Concat([j \in 1..Len(own) |-> own[j].arguments])

\* C29: for every chunk stream delivered, whatever the arrival order of its
\* tool-call fragments, the argument text accumulated for each call index
\* at the end of the stream is the concatenation of all the fragments
\* received for that index, in arrival order.
C29_ArgumentsConcatenated ==
  provider = "openai" =>
    \A r \in 1..Len(received) :
      LET acc == ConsumeStream(StreamStart, received[r])
      IN \A c \in 1..Len(acc.toolCalls) :
           acc.toolCalls[c].arguments = FragmentsOf(received[r], c - 1)

\* -- C30
\* The tool calls the responses carried so far, in the order received.
EmittedCalls ==
  Concat([j \in 1..Len(newMessages) |-> newMessages[j].toolCalls])

EventNames(events) == [e \in 1..Len(events) |-> events[e][1]]

\* What one executeTool call has done: nothing (the tool is not
\* registered), or onToolExecution and the invocation with the invocation
\* still under way, or those two followed by its end and onToolResult.
EntryInOrder(entry) ==
  /\ ~entry.executed => entry.events = << >>
  /\ entry.executed /\ entry.outcome = "pending"
       => EventNames(entry.events) = <<"onToolExecution", "execute">>
  /\ entry.executed /\ entry.outcome # "pending"
       => EventNames(entry.events) =
            <<"onToolExecution", "execute", "settled", "onToolResult">>
  /\ \A e \in 1..Len(entry.events) : entry.events[e][2] = entry.name

\* C30: the calls are handled in the order received, one executeTool call
\* per ToolCall; only the last call handled can have its invocation under
\* way (so every earlier call has ended before the next one starts); every
\* invocation has onToolExecution right before it and onToolResult right
\* after its end; no ToolCall is invoked twice.
C30_ToolsOneAtATime ==
  /\ LET emitted == EmittedCalls
     IN /\ Len(toolLog) <= Len(emitted)
        /\ \A j \in 1..Len(toolLog) :
             /\ toolLog[j].toolCallId = emitted[j].id
             /\ toolLog[j].name = emitted[j].name
  /\ \A j \in 1..Len(toolLog) :
       /\ EntryInOrder(toolLog[j])
       /\ toolLog[j].outcome = "pending"
            => j = Len(toolLog) /\ lpc = "executing"
  /\ toolsRun = Cardinality({j \in 1..Len(toolLog) : toolLog[j].executed})

\* C30's case: the three calls of one response were handled, the first and
\* the third invoked and ended, and the first call of the next response is
\* under way.
C30_Witness ==
  /\ lpc = "executing"
  /\ Len(toolLog) >= 4
  /\ \E j \in 1..(Len(toolLog) - 3) :
       /\ toolLog[j].outcome = "throws"
       /\ ~toolLog[j + 1].executed
       /\ toolLog[j + 2].outcome = "ok"
       /\ toolLog[j + 3].outcome = "pending"

\* -- C31
\* The canonical conversation of iteration k: the (limited) prior history
\* and the new user turn, then what iterations 1..k-1 appended to the loop
\* buffer (two messages each).
CanonicalConversation(k) ==
  TurnMessages \o SubSeq(newMessages, 1, 2 * (k - 1))

\* A conversation in the form the backend of the run takes.
InDialect(messages) ==
  IF provider = "anthropic"
  THEN toAnthropicMessages(messages)
  ELSE toOpenAIMessages(messages, SystemPrompt)

IsPrefix(s, t) == Len(s) <= Len(t) /\ SubSeq(t, 1, Len(s)) = s

\* C31: the conversation dispatched in iteration k is the prior history,
\* then the new user turn, then every message iterations 1..k-1 appended to
\* the loop buffer, in order; and each request's conversation extends the
\* conversation of the request before it.
C31_ConversationGrows ==
  /\ [](requests >= 1
          => allMessages = InDialect(CanonicalConversation(requests)))
  /\ [][IsPrefix(allMessages, allMessages')]_vars

\* The third request of a run is under way, two iterations having left
\* their messages in the buffer.
C31_Witness ==
  /\ lpc = "await"
  /\ requests = 3
  /\ Len(newMessages) = 4
  /\ Len(allMessages) > Len(TurnMessages) + 4

\* -- C32
\* The events of one chunk, in arrival order: its text delta (if it has
\* one), then its tool-call deltas.
ChunkEvents(chunk) ==
  (IF chunk.content # << >>
   THEN << <<"onPartialReply", chunk.content>> >> ELSE << >>)
  \o [j \in 1..Len(chunk.tool_calls) |->
        <<"tool_call", chunk.tool_calls[j].index>>]

\* The stream events of a response in arrival order, each text delta
\* standing for the onPartialReply call that is due for it.
ArrivalEvents(response) ==
  IF provider = "anthropic"
  THEN [i \in 1..Len(response.deltas) |-> <<"onPartialReply", response.deltas[i]>>]
  ELSE Concat([i \in 1..Len(response) |-> ChunkEvents(response[i])])

IsForward(event) == event[1] = "onPartialReply"

\* The deltas an iteration passed to onPartialReply, concatenated.
ForwardedText(handled) ==
  LET forwards == SelectSeq(handled, IsForward)
  IN Concat([i \in 1..Len(forwards) |-> forwards[i][2]])

\* C32: in every iteration the loop passes each text delta to onPartialReply
\* in arrival order, before it handles the events that arrived after it;
\* and the deltas forwarded in an iteration, concatenated, are the content
\* of that iteration's assistant message.
C32_DeltasForwardedInOrder ==
  /\ Len(partialReplies) = Len(received)
  /\ \A k \in 1..Len(received) :
       /\ partialReplies[k] = ArrivalEvents(received[k])
       /\ 2 * k - 1 <= Len(newMessages)
            => newMessages[2 * k - 1].content = ForwardedText(partialReplies[k])

\* The second response of a run came as two text deltas, both forwarded,
\* and its assistant message is in the buffer.
C32_Witness ==
  /\ Len(received) = 2
  /\ Len(SelectSeq(partialReplies[2], IsForward)) = 2
  /\ Len(newMessages) = 3
  /\ newMessages[3].content = <<"t", "u">>

\* -- C33
RECURSIVE SumOf(_)
SumOf(numbers) ==
  IF numbers = << >> THEN 0 ELSE Head(numbers) + SumOf(Tail(numbers))

\* The input and the output token counts the backend reported with one
\* response.
ReportedInput(response) ==
  IF provider = "anthropic"
  THEN response.usage.input_tokens
  ELSE SumOf([i \in 1..Len(response) |->
                IF response[i].usage = << >> THEN 0
                ELSE response[i].usage[1].prompt_tokens])

ReportedOutput(response) ==
  IF provider = "anthropic"
  THEN response.usage.output_tokens
  ELSE SumOf([i \in 1..Len(response) |->
                IF response[i].usage = << >> THEN 0
                ELSE response[i].usage[1].completion_tokens])

ReportedSoFar ==
  [inputTokens |-> SumOf([k \in 1..Len(received) |-> ReportedInput(received[k])]),
   outputTokens |-> SumOf([k \in 1..Len(received) |-> ReportedOutput(received[k])])]

RunSucceeded == agentResult.returned /\ agentResult.error.kind = "none"

\* C33: the running totals are at every moment the sums of the counts
\* reported with the responses received so far, they never decrease, and
\* the usage a successful run returns is the sum over all its iterations.
C33_UsageIsSum ==
  /\ [](/\ totalInputTokens = ReportedSoFar.inputTokens
        /\ totalOutputTokens = ReportedSoFar.outputTokens
        /\ RunSucceeded => agentResult.usage = <<ReportedSoFar>>)
  /\ [][/\ totalInputTokens' >= totalInputTokens
        /\ totalOutputTokens' >= totalOutputTokens]_vars

\* A run of three iterations returned its usage.
C33_Witness ==
  /\ RunSucceeded
  /\ Len(received) = 3
  /\ agentResult.usage[1].inputTokens = 60
  /\ agentResult.usage[1].outputTokens > 6

\* -- C34
\* The signatures of each kind, in the order in which they are tested.
SignatureTable ==
  << [kind |-> "context_overflow",
      signatures |-> {<<"context_length_exceeded">>, <<"too many tokens">>}],
     [kind |-> "rate_limit",
      signatures |-> {<<"rate_limit">>, <<"ThrottlingException">>}],
     [kind |-> "auth_error",
      signatures |-> {<<"AccessDeniedException">>, <<"UnauthorizedException">>}],
     [kind |-> "model_not_found",
      signatures |-> {<<"ResourceNotFoundException">>, <<"model not found">>}] >>

Matches(message, row) ==
  \E signature \in SignatureTable[row].signatures : Includes(message, signature)

MatchingRows(message) ==
  {row \in 1..Len(SignatureTable) : Matches(message, row)}

\* The kind of the first row that matches, "unknown" when none does.
FirstMatch(message) ==
  IF MatchingRows(message) = {} THEN "unknown"
  ELSE SignatureTable[CHOOSE row \in MatchingRows(message) :
                        \A other \in MatchingRows(message) : row <= other].kind

LoopFailed == lpc = "threw" /\ agentResult.returned

\* C34: every failure caught from the loop gets exactly one of the five
\* kinds: that of the first signature row its text matches, in the order
\* context_overflow, rate_limit, auth_error, model_not_found, and unknown
\* exactly when its text matches no row.
C34_ClassificationTotal ==
  LoopFailed =>
    /\ agentResult.error.kind \in ErrorKinds
    /\ agentResult.error.kind = FirstMatch(thrownMessage)
    /\ agentResult.error.kind = "unknown" <=> MatchingRows(thrownMessage) = {}

\* A failure whose text matches the signatures of two kinds was given the
\* kind tested first.
C34_Witness ==
  /\ LoopFailed
  /\ MatchingRows(thrownMessage) = {3, 4}
  /\ agentResult.error.kind = "auth_error"

\* -- C35
\* Task o awaits the result of a task it enqueued under its own key.
SelfWait(o) ==
  /\ taskState[o] = "awaiting"
  /\ taskKey[InnerTask(o)] = taskKey[o]

OnKeyOf(o, t) == taskState[t] # "idle" /\ taskKey[t] = taskKey[o]

\* Every task enqueued so far under the key is plain.
LaneAllPlain(laneKey) ==
  \A u \in AllTasks :
    taskState[u] # "idle" /\ taskKey[u] = laneKey => taskKind[u] = Plain

\* C35: once a task awaits a task it enqueued under its own key, it stays
\* so for ever: its inner task is queued and never starts, the lane stays
\* marked running, and no task of that key changes state again except that
\* further tasks get queued behind; meanwhile a task in a lane where all
\* tasks are plain still comes to its end.
C35_SelfWaitDeadlocks ==
  /\ [](\A o \in Tasks :
          SelfWait(o)
            => /\ taskState[InnerTask(o)] = "queued"
               /\ taskKey[o] \in DOMAIN lanes
               /\ lanes[taskKey[o]].running
               /\ \A t \in AllTasks \ {o} :
                    OnKeyOf(o, t) => taskState[t] \in {"queued", "done"})
  /\ [][\A o \in Tasks :
          SelfWait(o)
            => /\ SelfWait(o)'
               /\ \A t \in AllTasks :
                    /\ OnKeyOf(o, t) => taskState'[t] = taskState[t]
                    /\ (taskState[t] = "idle" /\ taskKey'[t] = taskKey[o])
                         => taskState'[t] \in {"idle", "queued"}]_vars
  /\ \A t \in AllTasks :
       (taskState[t] \in {"queued", "running"} /\ LaneAllPlain(taskKey[t]))
         ~> (taskState[t] = "done")

\* The first task awaits its inner task under its own key; a later task of
\* that key is queued behind it, and a task enqueued after that under the
\* other key is done.
C35_Witness ==
  /\ SelfWait(1)
  /\ taskKey[2] = taskKey[1]
  /\ taskState[2] = "queued"
  /\ taskKey[3] # taskKey[1]
  /\ taskState[3] = "done"

\* -- C36
\* The first message followed by the last n - 1 messages, in their order.
FirstAndLast(messages, n) ==
  <<messages[1]>> \o SubSeq(messages, Len(messages) - (n - 1) + 1, Len(messages))

\* C36: limitHistoryTurns returns its input when that has at most maxTurns
\* messages, and otherwise exactly maxTurns messages: the first one, then
\* the last maxTurns - 1 in their original order; for every maxTurns >= 1.
C36_LimitKeepsFirstAndLast ==
  limitOutput.applied =>
    IF Len(limitInput) <= limitMaxTurns
    THEN limitOutput.messages = limitInput
    ELSE /\ Len(limitOutput.messages) = limitMaxTurns
         /\ limitOutput.messages = FirstAndLast(limitInput, limitMaxTurns)

\* -- C37
\* A task of the lane is being processed.
LaneExecuting(laneKey) ==
  \E q \in Req : Called(q) /\ LaneKeyOf(q) = laneKey /\ InProcess(q)

\* An enqueue on a key none of whose tasks is being processed starts the
\* task before it returns.
EnqueueOnIdleKey(r) ==
  (pc[r] = "idle" /\ pc'[r] # "idle" /\ ~LaneExecuting(LaneKeyOf(r)'))
    => pc'[r] \in {"load", "settled"}

\* C37: a lane whose queue is not empty is marked running and has a task
\* being processed; a task enqueued on a key that has no task being
\* processed is started before enqueueInLane returns.
C37_NoIdleLaneWithWork ==
  /\ [](\A laneKey \in DOMAIN lanes :
          Len(lanes[laneKey].queue) > 0
            => lanes[laneKey].running /\ LaneExecuting(laneKey))
  /\ [][\A r \in Req : EnqueueOnIdleKey(r)]_vars

\* One lane has a task waiting behind the one it executes, and a task
\* enqueued after them on another key has started.
C37_Witness ==
  \E q, r, x \in Req :
    /\ q < r /\ r < x
    /\ SameKey(q, r)
    /\ ~SameKey(q, x)
    /\ pc[q] = "loop"
    /\ Queued(r)
    /\ pc[x] = "load"

\* ---------------------------------------------------------------------------
\* Session ids that share a session file
\* ---------------------------------------------------------------------------
\* resolveSessionFile replaces every character outside [a-zA-Z0-9-_] by "_",
\* getSessionLaneKey uses the id as it is: the callers of this specification
\* pass ids of which two differ only in such a character.
FileSessionIds == { <<"a">>, <<"_">>, <<"/">> }

FileNext ==
  \/ \E r \in Req, s \in FileSessionIds, t \in Clock : Run(TheDaemon, r, s, t, FALSE)
  \/ \E r \in Req : Load(r, TRUE)
  \/ \E r \in Req : Loop(r, TRUE, FALSE)
  \/ \E r \in Req : Save(r, TRUE, FALSE)
  \/ \E p \in procs, t \in Clock : LaneResume(p, t, FALSE)

FileSpec == Init /\ [][FileNext]_vars

\* -- C38 --------------------------------------------------------------------
\* SameFile(r1, r2): both requests were made and resolveSessionFile gives
\* their session ids the same file.
SameFile(r1, r2) ==
  /\ Called(r1)
  /\ Called(r2)
  /\ resolveSessionFile(sess[r1]) = resolveSessionFile(sess[r2])

\* InRunAgent(r): the run of r is between its loadSession and the end of its
\* saveSession.
InRunAgent(r) == pc[r] \in {"load", "loop", "save"}

\* C38: no two runs that load and save the same session file execute at the
\* same time, for every pair of session ids, the distinct ids that
\* resolveSessionFile maps to one file name included.
C38_OneRunPerSessionFile ==
  \A r1 \in Req, r2 \in Req :
    (r1 # r2 /\ SameFile(r1, r2)) => ~(InRunAgent(r1) /\ InRunAgent(r2))

\* The same statement for requests that name the same session id.
C38_OneRunPerSessionId ==
  \A r1 \in Req, r2 \in Req :
    (r1 # r2 /\ SameSession(r1, r2)) => ~(InRunAgent(r1) /\ InRunAgent(r2))

\* Two requests with different ids but one file are both in runAgent, and the
\* second has loaded the file before the first has saved it.
C38_SharedFileRace ==
  \E r1 \in Req, r2 \in Req :
    /\ r1 # r2
    /\ SameFile(r1, r2)
    /\ sess[r1] # sess[r2]
    /\ pc[r1] = "save"
    /\ pc[r2] = "loop"

\* -- C39 --------------------------------------------------------------------
\* The requests whose Run in the map has its signal set.
SignalledOwners(runs) ==
  {runs[i].owner : i \in {j \in 1..Len(runs) : runs[j].aborted}}

\* The Runs that are in both maps and whose signal is set in the second only.
NewlySignalled(runs1, runs2) ==
  {i \in 1..Len(runs1) :
     /\ i <= Len(runs2)
     /\ runs2[i].runId = runs1[i].runId
     /\ runs2[i].owner = runs1[i].owner
     /\ runs2[i].aborted
     /\ ~runs1[i].aborted}

\* A cancelRun step sets the signal of at most one Run, a Run of that session
\* whose task has started, and leaves every request where it is.
CancelSignalsOne(sessionId) ==
  CancelRun(sessionId)
    => /\ Cardinality(NewlySignalled(activeRuns, activeRuns')) <= 1
       /\ \A i \in NewlySignalled(activeRuns, activeRuns') :
            /\ activeRuns[i].sessionId = sessionId
            /\ Started(activeRuns[i].owner)
       /\ SignalledOwners(activeRuns') \ SignalledOwners(activeRuns)
            \subseteq {activeRuns[i].owner : i \in NewlySignalled(activeRuns, activeRuns')}
       /\ UNCHANGED <<pc, lanes, procs>>

\* A Run's signal is set by cancelRun only: every other step leaves the set
\* of signalled requests as it is or makes it smaller.
OnlyCancelSignals ==
  (~ \E sessionId \in SessionIds : CancelRun(sessionId))
    => SignalledOwners(activeRuns') \subseteq SignalledOwners(activeRuns)

\* The Run that a task creates when it starts has its signal unset, whatever
\* was cancelled while the request was queued.
StartsUnset(r) ==
  (~Started(r) /\ Started(r)')
    => \A i \in 1..Len(activeRuns') :
         activeRuns'[i].owner = r => ~activeRuns'[i].aborted

\* C39: cancellation affects only a run that has started when cancelRun is
\* called: one call sets the signal of at most one Run, a request of the
\* session that is still queued stays queued and later starts with a Run
\* whose signal is unset, and nothing but a cancelRun call sets a signal.
C39_CancelLeavesQueuedAlone ==
  /\ [][\A sessionId \in SessionIds : CancelSignalsOne(sessionId)]_vars
  /\ [][OnlyCancelSignals]_vars
  /\ [][\A r \in Req : StartsUnset(r)]_vars

\* A run was cancelled while a request of the same session waits in the lane.
C39_Witness ==
  \E r1 \in Req, r2 \in Req :
    /\ SameSession(r1, r2)
    /\ Executing(r1)
    /\ SignalOf(activeRuns, r1)
    /\ Queued(r2)

\* -- C40 --------------------------------------------------------------------
\* run() of request r has settled, rejected with what a lifecycle listener
\* threw.
ListenerRejected(r) ==
  /\ pc[r] = "done"
  /\ result[r] = Rejected(<<"listener", r>>)

\* The listener that threw was one of run:end (run:end was emitted).
EndListenerThrew(r) ==
  /\ ListenerRejected(r)
  /\ lifecycle[r] = <<"run:start", "run:end", "run:error">>

NoRunOf(r) == \A i \in 1..Len(activeRuns) : activeRuns[i].owner # r

\* C40: when a listener of run:start or of run:end throws, run() rejects and
\* the active-run map does not hold that run once run() has settled.
C40_RunRemovedWhenListenerThrows ==
  \A r \in Req : ListenerRejected(r) => NoRunOf(r)

\* The same statement for listeners of run:end alone.
C40_RunRemovedWhenEndListenerThrows ==
  \A r \in Req : EndListenerThrew(r) => NoRunOf(r)

\* A run:end listener has thrown and run() has settled.
C40_EndListenerCase == \E r \in Req : EndListenerThrew(r)

====
